---- MODULE Spec2Model ----
(***************************************************************************)
(* Host side of the HubFX Pico serial console: the sound-sync planner and  *)
(* runner (scripts/sync_sounds.py), and the chunked upload / download       *)
(* protocols (scripts/upload_file.py, scripts/download_file.py,             *)
(* tests/flash/test_flash_flow_control.py).                                 *)
(*                                                                          *)
(* Strings are sequences of one-character strings so that case folding,     *)
(* path joining and "//" replacement are computed, not assumed.             *)
(***************************************************************************)
EXTENDS Integers, Sequences, FiniteSets, TLC

\* ------------------------------------------------------------------ bounds
\* Number of sync runs (process invocations) in one behaviour of SpecResync.
MaxRuns == 2

\* Largest number of files in the local source folder.
MaxLocal == 2

\* Largest size, in bytes, of a transferred file.
MaxFileLen == 4

\* Bytes per chunk of the send loops, scaled down from the scripts' 512 and 64.
ChunkSize == 2

\* Largest number of leading "v" characters of a version string.
MaxV == 2

\* longest command response, in characters
MaxText == 4

\* Bytes per read of the comparison loop, scaled down from verify_transfer.py's 65536.
CompareChunk == 2

\* ------------------------------------------------------------- characters
\* str.lower() on the characters the path universe uses.
LowerChar(c) ==
    CASE c = "A" -> "a"
      [] c = "B" -> "b"
      [] c = "C" -> "c"
      [] c = "S" -> "s"
      [] c = "U" -> "u"
      [] c = "V" -> "v"
      [] c = "W" -> "w"
      [] OTHER -> c

lower(s) == [i \in 1..Len(s) |-> LowerChar(s[i])]

\* str.replace("\\", "/") of get_local_files
slashes(s) == [i \in 1..Len(s) |-> IF s[i] = "\\" THEN "/" ELSE s[i]]

\* str.replace("//", "/"): left to right, non-overlapping
RECURSIVE replace_dslash(_)
replace_dslash(s) ==
    IF Len(s) < 2 THEN s
    ELSE IF s[1] = "/" /\ s[2] = "/"
         THEN <<"/">> \o replace_dslash(SubSeq(s, 3, Len(s)))
         ELSE <<s[1]>> \o replace_dslash(Tail(s))

\* ------------------------------------------------------------ path universe
a_wav     == <<"a", ".", "w", "a", "v">>
A_WAV     == <<"A", ".", "W", "A", "V">>
sub_b_wav == <<"s", "u", "b", "/", "b", ".", "w", "a", "v">>
SUB_B_WAV == <<"S", "U", "B", "/", "B", ".", "W", "A", "V">>
SUB_a_wav == <<"S", "U", "B", "/", "a", ".", "w", "a", "v">>

LocalPaths  == {a_wav, A_WAV, sub_b_wav}
RemotePaths == {a_wav, A_WAV, sub_b_wav, SUB_B_WAV}
LocalSizes  == {0, 100, 200}
RemoteSizes == {0, 100, 150}

\* default of --dest
dest_folder == <<"/", "s", "o", "u", "n", "d", "s">>

\* ---------------------------------------------------------------- state
VARIABLES
    localFS,        \* local source folder in rglob order: <<[path, size], ...>>
    remoteFS,       \* files on the SD card under dest_folder: path -> size
    delete_orphans, \* --delete
    pc,             \* position of sync(): start, mkdir, upload, delete, done
    local_files,    \* ordered dict of the scan: <<[key, name, size], ...>>
    remote_files,   \* listing taken by this run: set of <<name, size>>
    to_upload,      \* <<[name, size, reason], ...>>
    to_delete,      \* remote names to remove (listing order is the device's)
    upIdx,          \* number of to_upload entries already attempted
    delDone,        \* names of to_delete already attempted
    stats,          \* SoundSyncer.stats
    cmds,           \* commands written to the channel by this run, with what came
                    \* of each: <<[op, path, size, result], ...>>
    sync_ret,       \* return value of sync(): "none", "true", "false"
    in_sync,        \* this run printed "Already in sync!"
    exit_code,      \* exit status of the script, -1 while it runs
    run,            \* index of the current run
    prev_run        \* the previous run: [ok: sync phase reached and every upload succeeded,
                    \*                    uploaded: it uploaded a file]

syncVars == <<localFS, remoteFS, delete_orphans, pc, local_files, remote_files,
              to_upload, to_delete, upIdx, delDone, stats, cmds, sync_ret,
              in_sync, exit_code, run, prev_run>>

VARIABLES
    variant,        \* the upload routine in use: "sync", "script" or "token"
    file,           \* content of the local file being transferred
    up,             \* the upload call: [pc, bytes_sent, ready_read, sent_at_success,
                    \*   err_read: an ERROR line was taken off the channel after READY,
                    \*   outcome: how the call ended]
    dl,             \* the download call: [pc, size, received, out]
    dev,            \* the device: [st, buf, stored, pos, sent_all]
    h2d,            \* bytes written by the host, not yet taken by the device
    d2h             \* bytes written by the device, not yet read by the host

xferVars == <<variant, file, up, dl, dev, h2d, d2h>>

VARIABLES
    verify          \* build_and_flash.py, step 5: [pc, expected_version, expected_build,
                    \*   response, success, actual_version, actual_build, report, exit]

VARIABLES
    call            \* a host-side function under check: [fn, text, ret]

flashVars == <<verify>>

textVars == <<call>>

hostVars == <<flashVars, textVars>>

vars == <<syncVars, xferVars, hostVars>>

\* no host-side function is under check
CallOff == call = [fn |-> "off", text |-> <<>>, ret |-> <<>>]

\* ------------------------------------------------- post-flash version check
\* version strings: leading "v" characters, a d.d.d core, an optional suffix
VersionCores == {"1.1.0", "1.1.1"}

RECURSIVE Vs(_)
Vs(k) == IF k = 0 THEN <<>> ELSE <<"v">> \o Vs(k - 1)

Versions ==
    {Vs(k) \o <<c>> \o suf : k \in 0..MaxV, c \in VersionCores, suf \in {<<>>, <<"-rc">>}}

Builds == {0, 121, 122}

\* what the device's answer to "version --json" carries: a JSON object, labeled
\* text, or neither; firmware <<>> and build -1 stand for a missing field
Responses ==
    [kind : {"json", "text"}, firmware : Versions \cup {<<>>}, build : Builds \cup {-1}]
        \cup {[kind |-> "none", firmware |-> <<>>, build |-> -1]}

\* str.lstrip('v'): every leading "v" goes
RECURSIVE lstrip_v(_)
lstrip_v(s) == IF s # <<>> /\ Head(s) = "v" THEN lstrip_v(Tail(s)) ELSE s

\* group(1) of r'"firmware"\s*:\s*"([^"]+)"': the quoted string, if not empty
json_version(resp) == IF resp.kind = "json" THEN resp.firmware ELSE <<>>

\* group(1) of r'(?:Firmware|Version)[:\s]+v?(\d+\.\d+\.\d+)': the core, when at
\* most one "v" stands between the label and the digits
text_version(resp) ==
    IF resp.kind = "text" /\ resp.firmware # <<>>
    THEN LET v == resp.firmware
         IN  IF Head(v) \in VersionCores THEN <<Head(v)>>
             ELSE IF Len(v) >= 2 /\ v[2] \in VersionCores THEN <<v[2]>>
             ELSE <<>>
    ELSE <<>>

\* the (success, actual_version, actual_build) of one of the two parsing passes
compare_version(actual_version, actual_build, expected_version, expected_build) ==
    [success |-> (lstrip_v(actual_version) = lstrip_v(expected_version)
                    /\ actual_build = expected_build),
     actual_version |-> actual_version,
     actual_build |-> actual_build]

NotVerified == [success |-> FALSE, actual_version |-> <<>>, actual_build |-> 0]

verify_device_version(resp, expected_version, expected_build) ==
    IF json_version(resp) # <<>> /\ resp.build >= 0
    THEN compare_version(json_version(resp), resp.build, expected_version, expected_build)
    ELSE IF text_version(resp) # <<>> /\ resp.build >= 0
    THEN compare_version(text_version(resp), resp.build, expected_version, expected_build)
    ELSE NotVerified

\* main(): "if success ... elif actual_version and actual_build ... else"
report_of(r) ==
    IF r.success THEN "verified"
    ELSE IF r.actual_version # <<>> /\ r.actual_build # 0 THEN "mismatch"
    ELSE "could_not_verify"

exit_of(report) == IF report = "mismatch" THEN 1 ELSE 0

NoResponse == [kind |-> "none", firmware |-> <<>>, build |-> -1]

FlashOff ==
    verify = [pc |-> "off", expected_version |-> <<>>, expected_build |-> 0,
              response |-> NoResponse, success |-> FALSE, actual_version |-> <<>>,
              actual_build |-> 0, report |-> "none", exit |-> -1]

FlashInit ==
    \E ev \in Versions, eb \in Builds :
        verify = [pc |-> "verify", expected_version |-> ev, expected_build |-> eb,
                  response |-> NoResponse, success |-> FALSE, actual_version |-> <<>>,
                  actual_build |-> 0, report |-> "none", exit |-> -1]

\* verify_device_version(): the command is sent and the answer read and parsed
VerifyDeviceVersion ==
    /\ verify.pc = "verify"
    /\ \E resp \in Responses :
         LET r == verify_device_version(resp, verify.expected_version, verify.expected_build)
         IN  verify' = [verify EXCEPT !.pc = "returned", !.response = resp,
                                      !.success = r.success,
                                      !.actual_version = r.actual_version,
                                      !.actual_build = r.actual_build]
    /\ UNCHANGED <<syncVars, xferVars, textVars>>

\* the port cannot be opened or read: "except Exception" returns (False, "", 0)
VerifyException ==
    /\ verify.pc = "verify"
    /\ verify' = [verify EXCEPT !.pc = "returned",
                                 !.response = [NoResponse EXCEPT !.kind = "exception"],
                                 !.success = NotVerified.success,
                                 !.actual_version = NotVerified.actual_version,
                                 !.actual_build = NotVerified.actual_build]
    /\ UNCHANGED <<syncVars, xferVars, textVars>>

\* main(), step 5: the three-way report and the exit status that follows from it
MainReport ==
    /\ verify.pc = "returned"
    /\ LET rp == report_of(verify)
       IN  verify' = [verify EXCEPT !.pc = "exited", !.report = rp, !.exit = exit_of(rp)]
    /\ UNCHANGED <<syncVars, xferVars, textVars>>

\* ------------------------------------------------------- local directory scan
\* dict[key] = value on an insertion-ordered dict kept as a sequence
DictSet(d, k, name, size) ==
    IF \E i \in 1..Len(d) : d[i].key = k
    THEN [i \in 1..Len(d) |->
            IF d[i].key = k THEN [key |-> k, name |-> name, size |-> size] ELSE d[i]]
    ELSE Append(d, [key |-> k, name |-> name, size |-> size])

RECURSIVE scan_upto(_, _)
scan_upto(tree, n) ==
    IF n = 0 THEN <<>>
    ELSE LET rel_path == slashes(tree[n].path)
         IN  DictSet(scan_upto(tree, n - 1), lower(rel_path), rel_path, tree[n].size)

\* mutant: the dict is keyed by the path as found, not by its lowercase
RECURSIVE scan_rawkey(_, _)
scan_rawkey(tree, n) ==
    IF n = 0 THEN <<>>
    ELSE LET rel_path == slashes(tree[n].path)
         IN  DictSet(scan_rawkey(tree, n - 1), rel_path, rel_path, tree[n].size)

get_local_files_rawkey(tree) == scan_rawkey(tree, Len(tree))

get_local_files(tree) == scan_upto(tree, Len(tree))

LocalKeys(lf) == {lf[i].key : i \in 1..Len(lf)}

\* ------------------------------------------------------- remote listing
DirPrefix(dir) == IF dir = <<>> THEN <<>> ELSE dir \o <<"/">>

IsPrefix(p, s) == Len(p) <= Len(s) /\ SubSeq(s, 1, Len(p)) = p

HasSlash(s) == \E i \in 1..Len(s) : s[i] = "/"

FirstSlash(s) == CHOOSE i \in 1..Len(s) : s[i] = "/" /\ \A j \in 1..(i - 1) : s[j] # "/"

\* the "entries" array the device returns for "sd ls <dest_folder>/<dir> --json"
sd_ls(fs, dir) ==
    LET under == {f \in DOMAIN fs : IsPrefix(DirPrefix(dir), f)}
        rest(f) == SubSeq(f, Len(DirPrefix(dir)) + 1, Len(f))
    IN  {[name |-> rest(f), type |-> "file", size |-> fs[f]] :
            f \in {g \in under : ~HasSlash(rest(g))}}
        \cup
        {[name |-> SubSeq(rest(f), 1, FirstSlash(rest(f)) - 1), type |-> "dir", size |-> 0] :
            f \in {g \in under : HasSlash(rest(g))}}

RECURSIVE list_remote_files(_, _)
list_remote_files(fs, dir) ==
    LET entries == sd_ls(fs, dir)
        sub(d)  == list_remote_files(fs, DirPrefix(dir) \o d.name)
    IN  {<<e.name, e.size>> : e \in {x \in entries : x.type = "file"}}
        \cup
        UNION {{<<d.name \o <<"/">> \o p[1], p[2]>> : p \in sub(d)} :
                  d \in {x \in entries : x.type = "dir"}}

RemoteNames(rf) == {p[1] : p \in rf}

\* remote_files_lower = {k.lower(): v ...}; .get(key) is None when absent
HasRemoteKey(rf, key) == \E p \in rf : lower(p[1]) = key

RemoteSizeOf(rf, key) == (CHOOSE p \in rf : lower(p[1]) = key)[2]

\* ------------------------------------------------------------ sync planner
\* mutant: "if not remote_size" in place of "if remote_size is None"
classify_falsy(rf, e) ==
    IF ~HasRemoteKey(rf, e.key) \/ RemoteSizeOf(rf, e.key) = 0 THEN "new"
    ELSE IF RemoteSizeOf(rf, e.key) # e.size THEN "modified"
    ELSE "skip"

\* mutant: only a local file larger than the remote one counts as modified
classify_larger(rf, e) ==
    IF ~HasRemoteKey(rf, e.key) THEN "new"
    ELSE IF RemoteSizeOf(rf, e.key) < e.size THEN "modified"
    ELSE "skip"

\* mutant: a file found on the card is always uploaded again
classify_noskip(rf, e) ==
    IF ~HasRemoteKey(rf, e.key) THEN "new" ELSE "modified"

\* the three-way comparison of one scanned entry against the remote listing
classify(rf, e) ==
    IF ~HasRemoteKey(rf, e.key) THEN "new"
    ELSE IF RemoteSizeOf(rf, e.key) # e.size THEN "modified"
    ELSE "skip"

\* mutant: the folded key is planned in place of the name as found
RECURSIVE plan_uploads_key(_, _, _)
plan_uploads_key(lf, rf, n) ==
    IF n = 0 THEN <<>>
    ELSE LET e == lf[n]
             before == plan_uploads_key(lf, rf, n - 1)
         IN  IF classify(rf, e) = "skip" THEN before
             ELSE Append(before, [name |-> e.key, size |-> e.size, reason |-> classify(rf, e)])

RECURSIVE plan_uploads(_, _, _)
plan_uploads(lf, rf, n) ==
    IF n = 0 THEN <<>>
    ELSE LET e == lf[n]
             before == plan_uploads(lf, rf, n - 1)
         IN  IF classify(rf, e) = "skip" THEN before
             ELSE Append(before, [name |-> e.name, size |-> e.size, reason |-> classify(rf, e)])

count_skipped(lf, rf) == Cardinality({i \in 1..Len(lf) : classify(rf, lf[i]) = "skip"})

\* mutant: orphans found by exact-case comparison
plan_deletes_exact(lf, rf, del) ==
    IF del THEN {n \in RemoteNames(rf) : n \notin {lf[i].name : i \in 1..Len(lf)}} ELSE {}

\* mutant: the delete_orphans flag is not consulted
plan_deletes_always(lf, rf, del) ==
    {n \in RemoteNames(rf) : lower(n) \notin LocalKeys(lf)}

plan_deletes(lf, rf, del) ==
    IF del THEN {n \in RemoteNames(rf) : lower(n) \notin LocalKeys(lf)} ELSE {}

\* f"{dest_folder}/{name}".replace("//", "/")
remote_path_of(name) == replace_dslash(dest_folder \o <<"/">> \o name)

\* os.path.dirname
dirname(s) ==
    IF ~HasSlash(s) THEN <<>>
    ELSE LET last == CHOOSE i \in 1..Len(s) : s[i] = "/" /\ \A j \in (i + 1)..Len(s) : s[j] # "/"
         IN  SubSeq(s, 1, last - 1)

\* the device's answer to "sd mkdir": the directory is there already (a file
\* under it, or a create of this loop that worked), or it is created, or not
mkdir_result(fs, before, remote_dir, ok) ==
    IF \/ \E f \in DOMAIN fs :
              IsPrefix(lower(remote_dir) \o <<"/">>, lower(remote_path_of(f)))
       \/ \E i \in 1..Len(before) :
              lower(before[i].path) = lower(remote_dir) /\ before[i].result # "error"
    THEN "exists"
    ELSE IF ok THEN "ok" ELSE "error"

\* the "sd mkdir" commands of the directory loop, one per dir_path not yet in dirs_created
RECURSIVE mkdir_cmds(_, _, _, _)
mkdir_cmds(tu, n, fs, ok) ==
    IF n = 0 THEN <<>>
    ELSE LET before == mkdir_cmds(tu, n - 1, fs, ok)
             dir_path == dirname(tu[n].name)
             created == {dirname(tu[i].name) : i \in 1..(n - 1)}
             remote_dir == remote_path_of(dir_path)
         IN  IF dir_path # <<>> /\ dir_path \notin created
             THEN Append(before, [op |-> "mkdir", path |-> remote_dir, size |-> 0,
                                  result |-> mkdir_result(fs, before, remote_dir, ok)])
             ELSE before

\* ------------------------------------------------------------ device storage
\* the path of a command relative to dest_folder
DevRel(path) == SubSeq(path, Len(dest_folder) + 2, Len(path))

\* FAT lookup: the stored name that matches a path case-insensitively
DevMatches(fs, rel) == {g \in DOMAIN fs : lower(g) = lower(rel)}

\* a completed upload creates the file, or overwrites the entry of the same folded name
DevStore(fs, rel, size) ==
    IF DevMatches(fs, rel) # {}
    THEN [g \in DOMAIN fs |-> IF g \in DevMatches(fs, rel) THEN size ELSE fs[g]]
    ELSE [g \in DOMAIN fs \cup {rel} |-> IF g = rel THEN size ELSE fs[g]]

DevRemove(fs, rel) == [g \in DOMAIN fs \ DevMatches(fs, rel) |-> fs[g]]

\* ------------------------------------------------------------ sync actions
ZeroStats == [uploaded |-> 0, skipped |-> 0, deleted |-> 0, errors |-> 0,
              bytes_transferred |-> 0]

LocalTrees ==
    {t \in UNION {[1..n -> [path : LocalPaths, size : LocalSizes]] :
                     n \in 0..MaxLocal} :
        \A i, j \in 1..Len(t) : i # j => t[i].path # t[j].path}

RemoteTrees ==
    UNION {[D -> RemoteSizes] :
              D \in {S \in SUBSET RemotePaths :
                        \A x, y \in S : lower(x) = lower(y) => x = y}}

SyncInit ==
    /\ localFS \in LocalTrees
    /\ remoteFS \in RemoteTrees
    /\ delete_orphans \in BOOLEAN
    /\ pc = "start"
    /\ local_files = <<>>
    /\ remote_files = {}
    /\ to_upload = <<>>
    /\ to_delete = {}
    /\ upIdx = 0
    /\ delDone = {}
    /\ stats = ZeroStats
    /\ cmds = <<>>
    /\ sync_ret = "none"
    /\ in_sync = FALSE
    /\ exit_code = -1
    /\ run = 1
    /\ prev_run = [ok |-> FALSE, uploaded |-> FALSE]

\* a source folder with the sub-folders "sub" and "SUB" side by side
DirPaths == {a_wav, sub_b_wav, SUB_a_wav}

DirTrees ==
    {t \in UNION {[1..n -> [path : DirPaths, size : {100, 200}]] : n \in 0..MaxLocal} :
        \A i, j \in 1..Len(t) : i # j => t[i].path # t[j].path}

DirsInit ==
    /\ localFS \in DirTrees
    /\ remoteFS \in RemoteTrees
    /\ delete_orphans \in BOOLEAN
    /\ pc = "start"
    /\ local_files = <<>>
    /\ remote_files = {}
    /\ to_upload = <<>>
    /\ to_delete = {}
    /\ upIdx = 0
    /\ delDone = {}
    /\ stats = ZeroStats
    /\ cmds = <<>>
    /\ sync_ret = "none"
    /\ in_sync = FALSE
    /\ exit_code = -1
    /\ run = 1
    /\ prev_run = [ok |-> FALSE, uploaded |-> FALSE]

\* main() after sync() has returned: the summary is printed and the script ends;
\* sync()'s return value and the error count are not consulted
main_exit(pc_after) == IF pc_after = "done" THEN 0 ELSE -1

\* sync() up to "if not self.init_sd(): return False"
SyncInitSdFails ==
    /\ pc = "start"
    /\ local_files' = get_local_files(localFS)
    /\ cmds' = Append(cmds, [op |-> "init", path |-> <<>>, size |-> 0, result |-> "error"])
    /\ sync_ret' = "false"
    /\ pc' = "done"
    /\ exit_code' = main_exit("done")
    /\ UNCHANGED <<localFS, remoteFS, delete_orphans, remote_files, to_upload,
                   to_delete, upIdx, delDone, stats, in_sync, run, prev_run, xferVars, hostVars>>

\* sync() from the scan to the end of the comparison, "Already in sync!" included
SyncPlan ==
    /\ pc = "start"
    /\ LET lf == get_local_files(localFS)
           rf == list_remote_files(remoteFS, <<>>)
           tu == plan_uploads(lf, rf, Len(lf))
           td == plan_deletes(lf, rf, delete_orphans)
       IN  /\ local_files' = lf
           /\ remote_files' = rf
           /\ to_upload' = tu
           /\ to_delete' = td
           /\ stats' = [stats EXCEPT !.skipped = @ + count_skipped(lf, rf)]
           /\ cmds' = cmds \o <<[op |-> "init", path |-> <<>>, size |-> 0, result |-> "ok"],
                                [op |-> "ls", path |-> dest_folder, size |-> 0, result |-> "ok"]>>
           /\ IF tu = <<>> /\ td = {}
              THEN /\ in_sync' = TRUE
                   /\ sync_ret' = "true"
                   /\ pc' = "done"
              ELSE /\ in_sync' = FALSE
                   /\ sync_ret' = "none"
                   /\ pc' = "mkdir"
    /\ exit_code' = main_exit(pc')
    /\ UNCHANGED <<localFS, remoteFS, delete_orphans, upIdx, delDone, run, prev_run, xferVars, hostVars>>

AfterUploads == IF to_delete = {} THEN "done" ELSE "delete"

\* mutant: the upload loop is left at the first failed upload
AfterUpload_abort(idx, outcome) ==
    IF outcome # "success" THEN "done"
    ELSE IF idx = Len(to_upload) THEN AfterUploads ELSE "upload"

\* where sync() goes after the idx-th upload, whatever upload_file() returned
AfterUpload(idx, outcome) == IF idx = Len(to_upload) THEN AfterUploads ELSE "upload"

\* "Create necessary directories"
SyncMkdirs ==
    /\ pc = "mkdir"
    /\ \E ok \in BOOLEAN :
         cmds' = cmds \o mkdir_cmds(to_upload, Len(to_upload), remoteFS, ok)
    /\ pc' = IF to_upload = <<>> THEN AfterUploads ELSE "upload"
    /\ sync_ret' = IF to_upload = <<>> /\ to_delete = {} THEN "true" ELSE sync_ret
    /\ exit_code' = main_exit(pc')
    /\ UNCHANGED <<localFS, remoteFS, delete_orphans, local_files, remote_files,
                   to_upload, to_delete, upIdx, delDone, stats, in_sync, run,
                   prev_run, xferVars, hostVars>>

\* what one upload_file() call can come to: SUCCESS read (True, the file is
\* stored); ERROR read or no READY in time (False, nothing stored); no completion
\* line in time although the device stored the file (False)
UploadOutcomes == {"success", "error", "timeout_stored"}

\* the transferred bytes counted whatever upload_file() returned
StatsAfterUpload_always(st, outcome, size) ==
    IF outcome = "success"
    THEN [st EXCEPT !.uploaded = @ + 1, !.bytes_transferred = @ + size]
    ELSE [st EXCEPT !.errors = @ + 1, !.bytes_transferred = @ + size]

\* stats after one upload_file() call: bytes_transferred grows where SUCCESS
\* is read, uploaded or errors where sync() tests the return value
StatsAfterUpload(st, outcome, size) ==
    IF outcome = "success"
    THEN [st EXCEPT !.uploaded = @ + 1, !.bytes_transferred = @ + size]
    ELSE [st EXCEPT !.errors = @ + 1]

\* one iteration of "Upload files"
SyncUpload ==
    /\ pc = "upload"
    /\ upIdx < Len(to_upload)
    /\ LET e == to_upload[upIdx + 1]
           remote_path == remote_path_of(e.name)
       IN  \E outcome \in UploadOutcomes :
             /\ cmds' = Append(cmds, [op |-> "upload", path |-> remote_path, size |-> e.size,
                                      result |-> outcome])
             /\ pc' = AfterUpload(upIdx + 1, outcome)
             /\ remoteFS' = IF outcome \in {"success", "timeout_stored"}
                            THEN DevStore(remoteFS, DevRel(remote_path), e.size)
                            ELSE remoteFS
             /\ stats' = StatsAfterUpload(stats, outcome, e.size)
    /\ upIdx' = upIdx + 1
    /\ sync_ret' = IF pc' = "done" THEN "true" ELSE sync_ret
    /\ exit_code' = main_exit(pc')
    /\ UNCHANGED <<localFS, delete_orphans, local_files, remote_files, to_upload,
                   to_delete, delDone, in_sync, run, prev_run, xferVars, hostVars>>

\* one iteration of "Delete orphaned files"
SyncDelete ==
    /\ pc = "delete"
    /\ \E name \in to_delete \ delDone :
        LET remote_path == remote_path_of(name)
        IN  /\ delDone' = delDone \cup {name}
            /\ \E ok \in BOOLEAN :
                 /\ cmds' = Append(cmds, [op |-> "rm", path |-> remote_path, size |-> 0,
                                          result |-> IF ok THEN "ok" ELSE "error"])
                 /\ remoteFS' = IF ok THEN DevRemove(remoteFS, DevRel(remote_path))
                                ELSE remoteFS
                 /\ stats' = IF ok THEN [stats EXCEPT !.deleted = @ + 1]
                             ELSE [stats EXCEPT !.errors = @ + 1]
            /\ pc' = IF delDone \cup {name} = to_delete THEN "done" ELSE "delete"
            /\ sync_ret' = IF delDone \cup {name} = to_delete THEN "true" ELSE sync_ret
    /\ exit_code' = main_exit(pc')
    /\ UNCHANGED <<localFS, delete_orphans, local_files, remote_files, to_upload,
                   to_delete, upIdx, in_sync, run, prev_run, xferVars, hostVars>>

\* the script is started again: a new SoundSyncer, the same folder and device
SyncAgain ==
    /\ pc = "done"
    /\ run < MaxRuns
    /\ run' = run + 1
    /\ prev_run' = [ok |-> (sync_ret = "true" /\ stats.uploaded = Len(to_upload)),
                    uploaded |-> (stats.uploaded > 0)]
    /\ pc' = "start"
    /\ local_files' = <<>>
    /\ remote_files' = {}
    /\ to_upload' = <<>>
    /\ to_delete' = {}
    /\ upIdx' = 0
    /\ delDone' = {}
    /\ stats' = ZeroStats
    /\ cmds' = <<>>
    /\ sync_ret' = "none"
    /\ in_sync' = FALSE
    /\ exit_code' = -1
    /\ UNCHANGED <<localFS, remoteFS, delete_orphans, xferVars, hostVars>>


\* ======================================================================
\* File transfer: the three upload routines, the device, the download
\* ======================================================================
Bytes == {"x", "y", "\n"}

NL == "\n"

FileContents == UNION {[1..n -> Bytes] : n \in 0..MaxFileLen}

\* a text line as the device writes it
Line(tok) == <<tok, NL>>

\* "SIZE: <n>"
SizeTok(n) == <<"SIZE:0", "SIZE:1", "SIZE:2", "SIZE:3", "SIZE:4", "SIZE:5", "SIZE:6">>[n + 1]

SizeToks == {SizeTok(n) : n \in 0..(MaxFileLen + 1)}

\* int(line.split(": ")[1])
ParseSize(tok) == CHOOSE n \in 0..(MaxFileLen + 1) : SizeTok(n) = tok

Has(seq, tok) == \E i \in 1..Len(seq) : seq[i] = tok

FirstNL(buf) == CHOOSE i \in 1..Len(buf) : buf[i] = NL /\ \A j \in 1..(i - 1) : buf[j] # NL

\* how many bytes ser.readline() takes: through the first newline, or all that
\* is there when the read times out without one
LineLen(buf) == IF Has(buf, NL) THEN FirstNL(buf) ELSE Len(buf)

\* .strip() of the line read: the newline goes
StripLine(buf) ==
    IF Has(buf, NL) THEN SubSeq(buf, 1, FirstNL(buf) - 1) ELSE buf

AfterLine(buf) == SubSeq(buf, LineLen(buf) + 1, Len(buf))

Min(a, b) == IF a < b THEN a ELSE b

NoFile == <<"(none)">>

\* err_pre: a line with ERROR was read in the READY wait; chunks: the chunks
\* written; resp_lines, last_line: the readline() calls that have returned
\* in the chunk loop of the per-chunk-ack routine, and what the last one gave;
\* waited_out: the wait for the closing line ran out; next_read: the NEXT
\* lines read in the chunk loop of the per-chunk-token routine;
\* xoff_pending: the last flow-control byte read in the send loop was XOFF;
\* xoff_missed: an XOFF byte was read there as ordinary text;
\* wrote_paused: a chunk was written while xoff_pending;
\* stale counts the bytes at the head of the inbound buffer that were written
\* by the device before the upload command; stale_read: one of them was read
\* as part of the response to the upload command
UpIdle == [pc |-> "off", bytes_sent |-> 0, ready_read |-> FALSE, sent_at_success |-> -1,
           err_read |-> FALSE, outcome |-> "none", stale |-> 0, stale_read |-> FALSE,
           err_pre |-> FALSE, chunks |-> 0, resp_lines |-> 0, last_line |-> <<>>,
           waited_out |-> FALSE, next_read |-> 0,
           xoff_pending |-> FALSE, xoff_missed |-> FALSE, wrote_paused |-> FALSE,
           file_size |-> 0]

\* ready_read: the READY line of the download handshake was read
DlIdle == [pc |-> "off", size |-> -1, received |-> 0, out |-> NoFile, ready_read |-> FALSE]

\* flow: "on", "off" after the device has sent XOFF, "resumed" after its XON;
\* progress: "open" while a PROGRESS line of a download lacks its newline
DevIdle == [st |-> "idle", buf |-> <<>>, stored |-> NoFile, pos |-> 0, sent_all |-> FALSE,
            flow |-> "on", progress |-> "none"]

XferOff ==
    /\ variant = "none"
    /\ file = <<>>
    /\ up = UpIdle
    /\ dl = DlIdle
    /\ dev = DevIdle
    /\ h2d = <<>>
    /\ d2h = <<>>

SyncOff ==
    /\ localFS = <<>>
    /\ remoteFS = <<>>
    /\ delete_orphans = FALSE
    /\ pc = "off"
    /\ local_files = <<>>
    /\ remote_files = {}
    /\ to_upload = <<>>
    /\ to_delete = {}
    /\ upIdx = 0
    /\ delDone = {}
    /\ stats = ZeroStats
    /\ cmds = <<>>
    /\ sync_ret = "none"
    /\ in_sync = FALSE
    /\ exit_code = -1
    /\ run = 1
    /\ prev_run = [ok |-> FALSE, uploaded |-> FALSE]

\* what an earlier command may have left in the inbound buffer when the upload
\* routine is entered: nothing, or a late line of its output
StaleLines == {<<>>, Line("ERROR")}

XferInit ==
    /\ SyncOff
    /\ FlashOff
    /\ CallOff
    /\ variant \in {"sync", "script", "token", "ack"}
    /\ file \in FileContents
    /\ d2h \in StaleLines
    /\ up = [UpIdle EXCEPT !.pc = "start", !.stale = Len(d2h), !.file_size = Len(file)]
    /\ dl = DlIdle
    /\ dev = DevIdle
    /\ h2d = <<>>

\* the local file is one byte longer or shorter when it is read than it was
\* when os.path.getsize measured it, or the same
XferResizeInit ==
    /\ SyncOff
    /\ FlashOff
    /\ CallOff
    /\ variant \in {"sync", "script", "token", "ack"}
    /\ file \in FileContents
    /\ d2h = <<>>
    /\ up \in {[UpIdle EXCEPT !.pc = "start", !.file_size = n] :
                  n \in {m \in (Len(file) - 1)..(Len(file) + 1) : m >= 0}}
    /\ dl = DlIdle
    /\ dev = DevIdle
    /\ h2d = <<>>

\* file_size = os.path.getsize(...), the size announced in the upload command
file_size == up.file_size

\* ---------------------------------------------------------------- upload, host
\* where the send loop "while bytes_sent < file_size" goes next
AfterSendLoop ==
    CASE variant = "token" -> "ret_true"
      [] variant = "ack" -> "y_done"
      [] OTHER -> "wait_done"

LoopOrExit(sent) == IF sent < file_size THEN "send" ELSE AfterSendLoop

\* the outcome once the send loop is left: "return True" right after it, or none yet
ExitOutcome(sent) == IF LoopOrExit(sent) = "ret_true" THEN "success" ELSE "none"

\* the software flow-control bytes 0x13 and 0x11
XOFF == "XOFF"

XON == "XON"

\* whether the last flow-control byte among bytes, if there is one, is XOFF
PendingAfter(bytes, pending) ==
    LET flow == SelectSeq(bytes, LAMBDA b : b \in {XOFF, XON})
    IN  IF flow = <<>> THEN pending ELSE flow[Len(flow)] = XOFF

\* the routines that call reset_input_buffer() before writing the upload command
ClearsBeforeCommand == variant \in {"sync", "script"}

\* the stale bytes left once the host has taken n bytes off the inbound buffer
StaleLeft(n) == IF up.stale > n THEN up.stale - n ELSE 0

\* a read of n bytes takes a stale byte
StaleHit(n) == up.stale > 0 /\ n > 0

\* the upload command is written (after reset_input_buffer where the routine has one)
UpSendCommand ==
    /\ up.pc = "start"
    /\ h2d' = Append(h2d, "upload")
    /\ d2h' = IF ClearsBeforeCommand THEN <<>> ELSE d2h
    /\ up' = [up EXCEPT !.pc = IF variant = "ack" THEN "y_ready" ELSE "wait_ready",
                        !.stale = IF ClearsBeforeCommand THEN 0 ELSE @]
    /\ UNCHANGED <<variant, file, dl, dev, syncVars, hostVars>>

\* what a line read in the READY wait does
ReadyVerdict(line) ==
    IF variant = "script"
    THEN IF line = <<"READY">> THEN "ready" ELSE "again"
    ELSE IF Has(line, "READY") THEN "ready"
         ELSE IF Has(line, "ERROR") THEN "error"
         ELSE "again"

\* one pass of "Wait for READY" that finds bytes waiting
UpReadReady ==
    /\ up.pc = "wait_ready"
    /\ d2h # <<>>
    /\ LET v == ReadyVerdict(StripLine(d2h))
       IN  up' = [up EXCEPT !.pc = CASE v = "ready" -> LoopOrExit(0)
                                     [] v = "error" -> "ret_false"
                                     [] OTHER -> "wait_ready",
                            !.ready_read = (@ \/ v = "ready"),
                            !.err_pre = (@ \/ Has(StripLine(d2h), "ERROR")),
                            !.stale = StaleLeft(LineLen(d2h)),
                            !.stale_read = (@ \/ StaleHit(LineLen(d2h))),
                            !.outcome = CASE v = "ready" -> ExitOutcome(0)
                                          [] v = "error" -> "device_error"
                                          [] OTHER -> @]
    /\ d2h' = AfterLine(d2h)
    /\ UNCHANGED <<variant, file, dl, dev, h2d, syncVars, hostVars>>

\* the 5 s of the READY wait run out
UpReadyTimeout ==
    /\ up.pc = "wait_ready"
    /\ up' = [up EXCEPT !.pc = "ret_false", !.outcome = "not_ready"]
    /\ UNCHANGED <<variant, file, dl, dev, h2d, d2h, syncVars, hostVars>>

\* "if not chunk: break" of the routines that wait for a line after each chunk
BreaksOnEmpty(chunk) == chunk = <<>> /\ variant \in {"token", "ack"}

\* chunk = f.read(chunk_size); write(chunk); bytes_sent += len(chunk)
UpSendChunk ==
    /\ up.pc = "send"
    /\ LET chunk == SubSeq(file, up.bytes_sent + 1, Min(up.bytes_sent + ChunkSize, Len(file)))
       IN  /\ h2d' = h2d \o chunk
           /\ up' = [up EXCEPT !.bytes_sent = @ + Len(chunk),
                               !.chunks = IF chunk = <<>> THEN @ ELSE @ + 1,
                               !.wrote_paused = (@ \/ (up.xoff_pending /\ chunk # <<>>)),
                               !.outcome = IF BreaksOnEmpty(chunk) /\ variant = "token"
                                           THEN "success" ELSE @,
                               !.pc = CASE BreaksOnEmpty(chunk) -> AfterSendLoop
                                        [] variant = "token" -> "ack"
                                        [] variant = "ack" -> "y_resp"
                                        [] OTHER -> "flow"]
    /\ UNCHANGED <<variant, file, dl, dev, d2h, syncVars, hostVars>>

\* "while ser.in_waiting": sync_sounds reads one byte, upload_file.py one byte
\* and then up to the next newline
UpFlowRead ==
    /\ up.pc = "flow"
    /\ d2h # <<>>
    /\ d2h' = IF variant = "sync" \/ Head(d2h) = XOFF THEN Tail(d2h) ELSE AfterLine(Tail(d2h))
    /\ up' = [up EXCEPT !.pc = IF Head(d2h) = XOFF THEN "paused" ELSE "flow",
                        !.xoff_pending = PendingAfter(SubSeq(d2h, 1, Len(d2h) - Len(d2h')), @),
                        !.xoff_missed = (@ \/ Has(SubSeq(d2h, 2, Len(d2h) - Len(d2h')), XOFF)),
                        !.err_read =
                 (@ \/ Has(SubSeq(d2h, 1, Len(d2h) - Len(d2h')), "ERROR")),
                        !.stale = StaleLeft(Len(d2h) - Len(d2h')),
                        !.stale_read = (@ \/ StaleHit(Len(d2h) - Len(d2h')))]
    /\ UNCHANGED <<variant, file, dl, dev, h2d, syncVars, hostVars>>

\* "while True: byte = ser.read(1)" after XOFF: bytes are taken and dropped
\* until one is XON
UpXonWait ==
    /\ up.pc = "paused"
    /\ d2h # <<>>
    /\ d2h' = Tail(d2h)
    /\ up' = [up EXCEPT !.pc = IF Head(d2h) = XON THEN "flow" ELSE "paused",
                        !.xoff_pending = (Head(d2h) # XON)]
    /\ UNCHANGED <<variant, file, dl, dev, h2d, syncVars, hostVars>>

\* nothing is waiting: sleep, then the loop condition
UpFlowDone ==
    /\ up.pc = "flow"
    /\ d2h = <<>>
    /\ up' = [up EXCEPT !.pc = LoopOrExit(up.bytes_sent),
                        !.outcome = ExitOutcome(up.bytes_sent)]
    /\ UNCHANGED <<variant, file, dl, dev, h2d, d2h, syncVars, hostVars>>

\* what a line read after a chunk does in upload_with_flow_control
AckVerdict(line) ==
    IF line = <<>> THEN "again"
    ELSE IF Head(line) = "NEXT" THEN "next"
    ELSE IF Has(line, "SUCCESS") THEN "success"
    ELSE IF Has(line, "ERROR") THEN "error"
    ELSE "again"

\* one pass of "Wait for NEXT or SUCCESS/ERROR" that finds bytes waiting
UpReadAck ==
    /\ up.pc = "ack"
    /\ d2h # <<>>
    /\ LET v == AckVerdict(StripLine(d2h))
       IN  up' = [up EXCEPT !.pc = CASE v \in {"next", "success"} -> LoopOrExit(up.bytes_sent)
                                     [] v = "error" -> "ret_false"
                                     [] OTHER -> "ack",
                            !.sent_at_success = IF v = "success" /\ @ = -1
                                                THEN up.bytes_sent ELSE @,
                            !.next_read = IF v = "next" THEN @ + 1 ELSE @,
                            !.xoff_pending = PendingAfter(SubSeq(d2h, 1, LineLen(d2h)), @),
                            !.xoff_missed = (@ \/ Has(SubSeq(d2h, 1, LineLen(d2h)), XOFF)),
                            !.err_read = (@ \/ Has(StripLine(d2h), "ERROR")),
                            !.stale = StaleLeft(LineLen(d2h)),
                            !.stale_read = (@ \/ StaleHit(LineLen(d2h))),
                            !.outcome = CASE v \in {"next", "success"} -> ExitOutcome(up.bytes_sent)
                                          [] v = "error" -> "device_error"
                                          [] OTHER -> @]
    /\ d2h' = AfterLine(d2h)
    /\ UNCHANGED <<variant, file, dl, dev, h2d, syncVars, hostVars>>

\* 30 s without a response
UpAckTimeout ==
    /\ up.pc = "ack"
    /\ up' = [up EXCEPT !.pc = "ret_false", !.outcome = "no_response"]
    /\ UNCHANGED <<variant, file, dl, dev, h2d, d2h, syncVars, hostVars>>

\* what a line read in the completion wait does
DoneVerdict(line) ==
    IF Has(line, "SUCCESS") THEN "success"
    ELSE IF Has(line, "ERROR") THEN "error"
    ELSE "again"

\* one pass of "Wait for completion" that finds bytes waiting
UpReadDone ==
    /\ up.pc = "wait_done"
    /\ d2h # <<>>
    /\ LET v == DoneVerdict(StripLine(d2h))
       IN  up' = [up EXCEPT !.pc = CASE v = "success" -> "ret_true"
                                     [] v = "error" -> "ret_false"
                                     [] OTHER -> "wait_done",
                            !.sent_at_success = IF v = "success" THEN up.bytes_sent ELSE @,
                            !.err_read = (@ \/ Has(StripLine(d2h), "ERROR")),
                            !.stale = StaleLeft(LineLen(d2h)),
                            !.stale_read = (@ \/ StaleHit(LineLen(d2h))),
                            !.outcome = CASE v = "success" -> "success"
                                          [] v = "error" -> "device_error"
                                          [] OTHER -> @]
    /\ d2h' = AfterLine(d2h)
    /\ UNCHANGED <<variant, file, dl, dev, h2d, syncVars, hostVars>>

\* 10 s without a completion line: "status unclear"
UpDoneTimeout ==
    /\ up.pc = "wait_done"
    /\ up' = [up EXCEPT !.pc = "ret_false", !.outcome = "unclear", !.waited_out = TRUE]
    /\ UNCHANGED <<variant, file, dl, dev, h2d, d2h, syncVars, hostVars>>

\* ------------------------------------------------- upload, per-chunk ack
\* what a line read in the READY wait of test_upload_yield.py does
YieldReadyVerdict(line) ==
    IF line = <<"READY">> THEN "ready"
    ELSE IF line = <<"ERR">> \/ Has(line, "Error") THEN "error"
    ELSE "again"

\* "while True: line = port.readline()": a line is read; a read that times
\* out gives the empty line and the loop goes round again
YieldReadReady ==
    /\ up.pc = "y_ready"
    /\ d2h # <<>>
    /\ LET v == YieldReadyVerdict(StripLine(d2h))
       IN  up' = [up EXCEPT !.pc = CASE v = "ready" -> LoopOrExit(0)
                                     [] v = "error" -> "ret_false"
                                     [] OTHER -> "y_ready",
                            !.ready_read = (@ \/ v = "ready"),
                            !.stale = StaleLeft(LineLen(d2h)),
                            !.stale_read = (@ \/ StaleHit(LineLen(d2h))),
                            !.outcome = IF v = "error" THEN "device_error" ELSE @]
    /\ d2h' = AfterLine(d2h)
    /\ UNCHANGED <<variant, file, dl, dev, h2d, syncVars, hostVars>>

\* the response that ends the upload successfully
YieldDone(line) == line = <<"DONE">>

\* a chunk loop that goes on whatever the response
YieldOk_any(line) == TRUE

\* the response that lets the chunk loop go on
YieldOk(line) == line = <<"OK">>

\* what the chunk loop does with the line readline() returned
AfterResponse(line) ==
    IF YieldDone(line) THEN "ret_true"
    ELSE IF ~YieldOk(line) THEN "ret_false"
    ELSE LoopOrExit(up.bytes_sent)

YieldOutcome(to) ==
    CASE to = "ret_true" -> "success"
      [] to = "ret_false" -> "unexpected"
      [] OTHER -> up.outcome

\* the one readline() after a chunk returns a line
YieldReadResponse ==
    /\ up.pc = "y_resp"
    /\ d2h # <<>>
    /\ LET line == StripLine(d2h)
       IN  up' = [up EXCEPT !.pc = AfterResponse(line),
                            !.resp_lines = @ + 1,
                            !.last_line = line,
                            !.xoff_pending = PendingAfter(SubSeq(d2h, 1, LineLen(d2h)), @),
                            !.xoff_missed = (@ \/ Has(SubSeq(d2h, 1, LineLen(d2h)), XOFF)),
                            !.sent_at_success = IF YieldDone(line) THEN up.bytes_sent ELSE @,
                            !.stale = StaleLeft(LineLen(d2h)),
                            !.stale_read = (@ \/ StaleHit(LineLen(d2h))),
                            !.outcome = YieldOutcome(AfterResponse(line))]
    /\ d2h' = AfterLine(d2h)
    /\ UNCHANGED <<variant, file, dl, dev, h2d, syncVars, hostVars>>

\* nothing arrives within the port's 2 s: readline() returns the empty line
YieldResponseTimeout ==
    /\ up.pc = "y_resp"
    /\ d2h = <<>>
    /\ up' = [up EXCEPT !.pc = AfterResponse(<<>>),
                        !.resp_lines = @ + 1,
                        !.last_line = <<>>,
                        !.outcome = YieldOutcome(AfterResponse(<<>>))]
    /\ UNCHANGED <<variant, file, dl, dev, h2d, d2h, syncVars, hostVars>>

\* "Should get DONE after last chunk": one more readline()
YieldReadDone ==
    /\ up.pc = "y_done"
    /\ d2h # <<>>
    /\ LET done == YieldDone(StripLine(d2h))
       IN  up' = [up EXCEPT !.pc = IF done THEN "ret_true" ELSE "ret_false",
                            !.sent_at_success = IF done THEN up.bytes_sent ELSE @,
                            !.stale = StaleLeft(LineLen(d2h)),
                            !.stale_read = (@ \/ StaleHit(LineLen(d2h))),
                            !.outcome = IF done THEN "success" ELSE "unexpected"]
    /\ d2h' = AfterLine(d2h)
    /\ UNCHANGED <<variant, file, dl, dev, h2d, syncVars, hostVars>>

YieldDoneTimeout ==
    /\ up.pc = "y_done"
    /\ d2h = <<>>
    /\ up' = [up EXCEPT !.pc = "ret_false", !.outcome = "unexpected", !.waited_out = TRUE]
    /\ UNCHANGED <<variant, file, dl, dev, h2d, d2h, syncVars, hostVars>>

\* sync() goes on after upload_file() has returned, True or False: the next
\* entry's command (an upload or an "sd rm") is written after a reset of the
\* inbound buffer
UpNextCommand ==
    /\ variant = "sync"
    /\ up.pc \in {"ret_true", "ret_false"}
    /\ h2d' = Append(h2d, "cmd")
    /\ d2h' = <<>>
    /\ up' = [up EXCEPT !.pc = "next_sent", !.stale = 0]
    /\ UNCHANGED <<variant, file, dl, dev, syncVars, hostVars>>


\* ---------------------------------------------------------------- device
\* the word the device reports a failure with under the protocol in use
ErrorTok == IF variant = "ack" THEN "ERR" ELSE "ERROR"

\* the device takes an upload command and answers READY or ERROR
DevUploadCmd ==
    /\ dev.st = "idle"
    /\ h2d # <<>>
    /\ Head(h2d) = "upload"
    /\ h2d' = Tail(h2d)
    /\ \E ok \in BOOLEAN :
         /\ d2h' = d2h \o Line(IF ok THEN "READY" ELSE ErrorTok)
         /\ dev' = [dev EXCEPT !.st = IF ok THEN "recv" ELSE "idle", !.buf = <<>>]
    /\ UNCHANGED <<variant, file, up, dl, syncVars, hostVars>>

\* the device takes the payload bytes that have arrived; under the per-chunk
\* token protocol it answers NEXT, unless it goes straight on to its closing line
DevRecv ==
    /\ dev.st = "recv"
    /\ dev.flow # "off"
    /\ h2d # <<>>
    /\ Len(dev.buf) < file_size
    /\ dev' = [dev EXCEPT !.buf = @ \o h2d]
    /\ h2d' = <<>>
    /\ \/ /\ variant = "token"
          /\ d2h' = d2h \o Line("NEXT")
       \/ /\ variant = "ack"
          /\ d2h' = d2h \o Line("OK")
       \/ d2h' = d2h
    /\ UNCHANGED <<variant, file, up, dl, syncVars, hostVars>>

\* all announced bytes are in: the file is stored and SUCCESS is written
DevComplete ==
    /\ dev.st = "recv"
    /\ Len(dev.buf) >= file_size
    /\ dev' = [dev EXCEPT !.st = "idle", !.stored = dev.buf]
    /\ d2h' = d2h \o Line(IF variant = "ack" THEN "DONE" ELSE "SUCCESS")
    /\ UNCHANGED <<variant, file, up, dl, h2d, syncVars, hostVars>>

\* a storage fault: the device gives up the upload with ERROR
DevFail ==
    /\ dev.st = "recv"
    /\ dev' = [dev EXCEPT !.st = "idle"]
    /\ d2h' = d2h \o Line(ErrorTok)
    /\ UNCHANGED <<variant, file, up, dl, h2d, syncVars, hostVars>>

\* per-chunk token protocol: the device reports SUCCESS before the sender has
\* sent all its chunks
DevEarlySuccess ==
    /\ variant = "token"
    /\ dev.st = "recv"
    /\ dev.buf # <<>>
    /\ Len(dev.buf) < file_size
    /\ dev' = [dev EXCEPT !.st = "idle"]
    /\ d2h' = d2h \o Line("SUCCESS")
    /\ UNCHANGED <<variant, file, up, dl, h2d, syncVars, hostVars>>

\* the receiving device, its buffer filling up, asks the sender to pause, once
\* per upload
DevXoff ==
    /\ dev.st = "recv"
    /\ dev.buf # <<>>
    /\ dev.flow = "on"
    /\ d2h' = Append(d2h, XOFF)
    /\ dev' = [dev EXCEPT !.flow = "off"]
    /\ UNCHANGED <<variant, file, up, dl, h2d, syncVars, hostVars>>

\* and lets it go on
DevXon ==
    /\ dev.st = "recv"
    /\ dev.flow = "off"
    /\ d2h' = Append(d2h, XON)
    /\ dev' = [dev EXCEPT !.flow = "resumed"]
    /\ UNCHANGED <<variant, file, up, dl, h2d, syncVars, hostVars>>

\* the idle device takes the command that follows the upload and answers it
DevOtherCmd ==
    /\ dev.st = "idle"
    /\ h2d # <<>>
    /\ Head(h2d) = "cmd"
    /\ h2d' = Tail(h2d)
    /\ d2h' = d2h \o Line("OK")
    /\ UNCHANGED <<variant, file, up, dl, dev, syncVars, hostVars>>

\* the device takes a download command: SIZE and READY, or ERROR without a file
DevDownloadCmd ==
    /\ dev.st = "idle"
    /\ h2d # <<>>
    /\ Head(h2d) = "download"
    /\ h2d' = Tail(h2d)
    /\ IF dev.stored # NoFile
       THEN /\ d2h' = d2h \o Line(SizeTok(Len(dev.stored))) \o Line("READY")
            /\ dev' = [dev EXCEPT !.st = "wait_start"]
       ELSE /\ d2h' = d2h \o Line("ERROR")
            /\ dev' = dev
    /\ UNCHANGED <<variant, file, up, dl, syncVars, hostVars>>

DevStart ==
    /\ dev.st = "wait_start"
    /\ h2d # <<>>
    /\ Head(h2d) = "START"
    /\ h2d' = Tail(h2d)
    /\ dev' = [dev EXCEPT !.st = "send", !.pos = 0]
    /\ UNCHANGED <<variant, file, up, dl, d2h, syncVars, hostVars>>

\* the next byte of the stored file goes out
DevSendByte ==
    /\ dev.st = "send"
    /\ dev.progress # "open"
    /\ dev.pos < Len(dev.stored)
    /\ d2h' = Append(d2h, dev.stored[dev.pos + 1])
    /\ dev' = [dev EXCEPT !.pos = @ + 1]
    /\ UNCHANGED <<variant, file, up, dl, h2d, syncVars, hostVars>>

\* once per download the device reports its progress between two payload
\* bytes; the text of the line and its newline reach the host one after
\* the other
DevProgress ==
    /\ dev.st = "send"
    /\ dev.progress = "none"
    /\ 0 < dev.pos
    /\ dev.pos < Len(dev.stored)
    /\ d2h' = Append(d2h, "PROGRESS")
    /\ dev' = [dev EXCEPT !.progress = "open"]
    /\ UNCHANGED <<variant, file, up, dl, h2d, syncVars, hostVars>>

DevProgressEnd ==
    /\ dev.progress = "open"
    /\ d2h' = Append(d2h, NL)
    /\ dev' = [dev EXCEPT !.progress = "done"]
    /\ UNCHANGED <<variant, file, up, dl, h2d, syncVars, hostVars>>

\* the closing status line, written once the payload has been taken off the line
DevSendDone ==
    /\ dev.st = "send"
    /\ dev.progress # "open"
    /\ dev.pos = Len(dev.stored)
    /\ d2h = <<>>
    /\ d2h' = Line("SUCCESS")
    /\ dev' = [dev EXCEPT !.st = "idle", !.sent_all = TRUE]
    /\ UNCHANGED <<variant, file, up, dl, h2d, syncVars, hostVars>>

\* ---------------------------------------------------------------- download, host
\* download_file() is called for the file upload_file() has just stored
DlSendCommand ==
    /\ variant = "script"
    /\ up.pc = "ret_true"
    /\ dl.pc = "off"
    /\ d2h' = <<>>
    /\ h2d' = Append(h2d, "download")
    /\ dl' = [dl EXCEPT !.pc = "wait_size"]
    /\ UNCHANGED <<variant, file, up, dev, syncVars, hostVars>>

\* one pass of "Wait for SIZE and READY response" that finds bytes waiting
DlReadHeader ==
    /\ dl.pc = "wait_size"
    /\ d2h # <<>>
    /\ LET line == StripLine(d2h)
       IN  dl' = IF line # <<>> /\ Head(line) \in SizeToks
                 THEN [dl EXCEPT !.size = ParseSize(Head(line))]
                 ELSE IF line = <<"READY">>
                 THEN [dl EXCEPT !.pc = "start", !.ready_read = TRUE]
                 ELSE IF line # <<>> /\ Head(line) = "ERROR"
                 THEN [dl EXCEPT !.pc = "ret_false"]
                 ELSE dl
    /\ d2h' = AfterLine(d2h)
    /\ UNCHANGED <<variant, file, up, dev, h2d, syncVars, hostVars>>

\* the 5 s run out: only a missing size ends the download
DlHeaderTimeout ==
    /\ dl.pc = "wait_size"
    /\ dl' = [dl EXCEPT !.pc = IF dl.size = -1 THEN "ret_false" ELSE "start"]
    /\ UNCHANGED <<variant, file, up, dev, h2d, d2h, syncVars, hostVars>>

\* "if file_size is None" after a READY, then START and open(local_path, 'wb')
DlSendStart ==
    /\ dl.pc = "start"
    /\ IF dl.size = -1
       THEN /\ dl' = [dl EXCEPT !.pc = "ret_false"]
            /\ h2d' = h2d
       ELSE /\ dl' = [dl EXCEPT !.pc = IF dl.size > 0 THEN "recv" ELSE "ret_true",
                                !.out = <<>>]
            /\ h2d' = Append(h2d, "START")
    /\ UNCHANGED <<variant, file, up, dev, d2h, syncVars, hostVars>>

LastNL(buf) == CHOOSE i \in 1..Len(buf) : buf[i] = NL /\ \A j \in (i + 1)..Len(buf) : buf[j] # NL

IsMarked(part) == Has(part, "PROGRESS") \/ Has(part, "SUCCESS")

\* mutant: every segment without a marker is payload, newlines put back
RECURSIVE demux_keep(_)
demux_keep(chunk) ==
    IF ~Has(chunk, NL) THEN (IF IsMarked(chunk) THEN <<>> ELSE chunk)
    ELSE LET part == SubSeq(chunk, 1, FirstNL(chunk) - 1)
             rest == SubSeq(chunk, FirstNL(chunk) + 1, Len(chunk))
         IN  (IF IsMarked(part) THEN <<>> ELSE Append(part, NL)) \o demux_keep(rest)

\* the bytes of one received buffer that reach the file: all of it without a
\* newline; with one, only the segment after the last newline, unless marked
demux(chunk) ==
    IF ~Has(chunk, NL) THEN chunk
    ELSE LET last == SubSeq(chunk, LastNL(chunk) + 1, Len(chunk))
         IN  IF IsMarked(last) THEN <<>> ELSE last

\* one pass of the receive loop that finds bytes waiting
DlRead ==
    /\ dl.pc = "recv"
    /\ d2h # <<>>
    /\ LET data == demux(d2h)
       IN  dl' = [dl EXCEPT !.out = @ \o data,
                            !.received = @ + Len(data),
                            !.pc = IF dl.received + Len(data) < dl.size
                                   THEN "recv" ELSE "ret_true"]
    /\ d2h' = <<>>
    /\ UNCHANGED <<variant, file, up, dev, h2d, syncVars, hostVars>>

XferNext ==
    \/ UpSendCommand
    \/ UpReadReady
    \/ UpReadyTimeout
    \/ UpSendChunk
    \/ UpFlowRead
    \/ UpXonWait
    \/ UpFlowDone
    \/ UpReadAck
    \/ UpAckTimeout
    \/ UpReadDone
    \/ UpDoneTimeout
    \/ UpNextCommand
    \/ YieldReadReady
    \/ YieldReadResponse
    \/ YieldResponseTimeout
    \/ YieldReadDone
    \/ YieldDoneTimeout
    \/ DevUploadCmd
    \/ DevOtherCmd
    \/ DevXoff
    \/ DevXon
    \/ DevRecv
    \/ DevComplete
    \/ DevFail
    \/ DevEarlySuccess
    \/ DevDownloadCmd
    \/ DevStart
    \/ DevSendByte
    \/ DevProgress
    \/ DevProgressEnd
    \/ DevSendDone
    \/ DlSendCommand
    \/ DlReadHeader
    \/ DlHeaderTimeout
    \/ DlSendStart
    \/ DlRead

SpecXfer == XferInit /\ [][XferNext]_vars

\* the steps of the host: the calling sequence goes on whenever it can, a wait
\* with a timeout ends at the latest when the timeout runs out
HostNext ==
    \/ UpSendCommand
    \/ UpReadReady
    \/ UpReadyTimeout
    \/ UpSendChunk
    \/ UpFlowRead
    \/ UpXonWait
    \/ UpFlowDone
    \/ UpReadAck
    \/ UpAckTimeout
    \/ UpReadDone
    \/ UpDoneTimeout
    \/ YieldReadReady
    \/ YieldReadResponse
    \/ YieldResponseTimeout
    \/ YieldReadDone
    \/ YieldDoneTimeout
    \/ DlReadHeader
    \/ DlHeaderTimeout
    \/ DlSendStart
    \/ DlRead

\* the transfer routines with a host that keeps running; the device is free to
\* fall silent at any point
SpecXferLive == XferInit /\ [][XferNext]_vars /\ WF_vars(HostNext)

\* the exchanges where the file's length changed after it was measured
SpecXferResize == XferResizeInit /\ [][XferNext]_vars

\* one run of the script
Init == SyncInit /\ XferOff /\ FlashOff /\ CallOff

Next ==
    \/ SyncInitSdFails
    \/ SyncPlan
    \/ SyncMkdirs
    \/ SyncUpload
    \/ SyncDelete

Spec == Init /\ [][Next]_vars

\* the script run MaxRuns times in a row on the same folder and device
NextResync ==
    \/ SyncInitSdFails
    \/ SyncPlan
    \/ SyncMkdirs
    \/ SyncUpload
    \/ SyncDelete
    \/ SyncAgain

SpecResync == Init /\ [][NextResync]_vars

\* one run of the script on a source folder with sub-folders
InitDirs == DirsInit /\ XferOff /\ FlashOff /\ CallOff

SpecDirs == InitDirs /\ [][Next]_vars

\* step 5 of build_and_flash.py
FlashNext ==
    \/ VerifyDeviceVersion
    \/ VerifyException
    \/ MainReport

InitFlash == SyncOff /\ XferOff /\ FlashInit /\ CallOff

SpecFlash == InitFlash /\ [][FlashNext]_vars

\* ======================================================================
\* Host-side text functions: command responses and their JSON content
\* ----------------------------------------------------------------------
\* A response is a sequence of characters: ">" the prompt and echo marker,
\* " " and newline the whitespace, "1" any other character (inside JSON: a
\* member or an element), and the four JSON brackets.
TextChars == {">", " ", "1", NL, "{", "}", "[", "]"}

Texts == UNION {[1..n -> TextChars] : n \in 0..MaxText}

IsSpace(ch) == ch \in {" ", NL}

RECURSIVE lstrip(_)
lstrip(s) == IF s # <<>> /\ IsSpace(Head(s)) THEN lstrip(Tail(s)) ELSE s

RECURSIVE rstrip(_)
rstrip(s) == IF s # <<>> /\ IsSpace(s[Len(s)]) THEN rstrip(SubSeq(s, 1, Len(s) - 1)) ELSE s

\* str.strip()
strip(s) == rstrip(lstrip(s))

\* str.split('\n'): always at least one piece
RECURSIVE split_lines(_)
split_lines(s) ==
    IF ~Has(s, NL) THEN <<s>>
    ELSE <<SubSeq(s, 1, FirstNL(s) - 1)>> \o split_lines(SubSeq(s, FirstNL(s) + 1, Len(s)))

\* '\n'.join(lines)
RECURSIVE join_lines(_)
join_lines(lines) ==
    IF lines = <<>> THEN <<>>
    ELSE IF Len(lines) = 1 THEN lines[1]
    ELSE lines[1] \o <<NL>> \o join_lines(Tail(lines))

startswith(s, ch) == s # <<>> /\ Head(s) = ch

\* send() without the removal of the echo line
send_keep_echo(response) == strip(join_lines(split_lines(strip(response))))

\* SerialConnection.send(): what it returns for the accumulated response
send(response) ==
    LET lines == split_lines(strip(response))
        kept == IF lines # <<>> /\ startswith(strip(lines[1]), ">") THEN Tail(lines) ELSE lines
    IN  strip(join_lines(kept))

\* SoundSyncer.send_command(): what it returns for the accumulated response
send_command(response) == strip(response)

\* the text without its whitespace: what a JSON parser sees of it
Unspaced(s) == SelectSeq(s, LAMBDA ch : ~IsSpace(ch))

\* the brackets of t[i..] nest properly above the open brackets in stack and
\* one value, and nothing after it, makes up the text
RECURSIVE nests(_, _, _)
nests(t, i, stack) ==
    IF i > Len(t) THEN stack = <<>>
    ELSE IF i > 1 /\ stack = <<>> THEN FALSE
    ELSE CASE t[i] \in {"{", "["} -> nests(t, i + 1, Append(stack, t[i]))
           [] t[i] = "}" -> /\ stack # <<>>
                            /\ stack[Len(stack)] = "{"
                            /\ nests(t, i + 1, SubSeq(stack, 1, Len(stack) - 1))
           [] t[i] = "]" -> /\ stack # <<>>
                            /\ stack[Len(stack)] = "["
                            /\ nests(t, i + 1, SubSeq(stack, 1, Len(stack) - 1))
           [] t[i] = "1" -> stack # <<>> /\ nests(t, i + 1, stack)
           [] OTHER -> FALSE

\* json.loads(s) returns (TRUE) or raises JSONDecodeError (FALSE); a scalar
\* on its own is a document too
json_loads_ok(s) ==
    LET t == Unspaced(s) IN t # <<>> /\ (t = <<"1">> \/ nests(t, 1, <<>>))

\* the value json.loads(s) returns, written without whitespace
json_loads(s) == Unspaced(s)

None == <<"None">>

EmptyDict == <<"{", "}">>

FirstOf(s, chars) == CHOOSE i \in 1..Len(s) : s[i] \in chars /\ \A j \in 1..(i - 1) : s[j] \notin chars

\* the depth after s[from..i], counting the brackets in opens and closes
RECURSIVE depth_at(_, _, _, _, _)
depth_at(s, from, i, opens, closes) ==
    IF i < from THEN 0
    ELSE depth_at(s, from, i - 1, opens, closes)
         + (IF s[i] \in opens THEN 1 ELSE IF s[i] \in closes THEN -1 ELSE 0)

\* SoundSyncer.send_json_command(), after send_command(): the first "{", the
\* first "}" that brings the brace depth back to 0, json.loads of what lies
\* between, None where any of this fails
send_json_command(response) ==
    LET r == send_command(response) IN
    IF \A i \in 1..Len(r) : r[i] # "{" THEN None
    ELSE LET start == FirstOf(r, {"{"})
             ends == {i \in start..Len(r) :
                        r[i] = "}" /\ depth_at(r, start, i, {"{"}, {"}"}) = 0}
         IN  IF ends = {} THEN None
             ELSE LET end == CHOOSE i \in ends : \A j \in ends : i <= j
                      sub == SubSeq(r, start, end)
                  IN  IF json_loads_ok(sub) THEN json_loads(sub) ELSE None

\* the loop of SerialConnection.send_json() over the lines from index k on
RECURSIVE first_json_line(_, _)
first_json_line(lines, k) ==
    IF k > Len(lines) THEN EmptyDict
    ELSE LET line == strip(lines[k])
         IN  IF (startswith(line, "{") \/ startswith(line, "[")) /\ json_loads_ok(line)
             THEN json_loads(line)
             ELSE first_json_line(lines, k + 1)

\* SerialConnection.send_json(), after send()
send_json(response) == first_json_line(split_lines(send(response)), 1)

\* ---------------------------------------------------------------------- calls
InitText ==
    /\ SyncOff
    /\ XferOff
    /\ FlashOff
    /\ call \in {[fn |-> "wait", text |-> t, ret |-> <<>>] : t \in Texts}

CallSend ==
    /\ call.fn = "wait"
    /\ call' = [call EXCEPT !.fn = "send", !.ret = send(call.text)]
    /\ UNCHANGED <<syncVars, xferVars, flashVars>>

CallSendJson ==
    /\ call.fn = "wait"
    /\ call' = [call EXCEPT !.fn = "send_json", !.ret = send_json(call.text)]
    /\ UNCHANGED <<syncVars, xferVars, flashVars>>

CallSendJsonCommand ==
    /\ call.fn = "wait"
    /\ call' = [call EXCEPT !.fn = "send_json_command", !.ret = send_json_command(call.text)]
    /\ UNCHANGED <<syncVars, xferVars, flashVars>>

TextNext ==
    \/ CallSend
    \/ CallSendJson
    \/ CallSendJsonCommand

SpecText == InitText /\ [][TextNext]_vars

\* ======================================================================
\* verify_transfer.py: the original file against the downloaded one
\* ----------------------------------------------------------------------
CompareFiles == UNION {[1..n -> {"x", "y"}] : n \in 0..MaxFileLen}

\* hashlib.md5(...).hexdigest(): no two files of CompareFiles share a digest
md5(f) == <<"md5">> \o f

\* f.read(chunk_size) at offset pos
read_chunk(f, pos) == SubSeq(f, pos + 1, Min(pos + CompareChunk, Len(f)))

\* the comparison loop from bytes_compared on: [match, bytes_compared, and the
\* offset printed with MISMATCH, -1 where none is printed]
RECURSIVE compare_loop(_, _, _)
compare_loop(f1, f2, bytes_compared) ==
    LET chunk1 == read_chunk(f1, bytes_compared)
        chunk2 == read_chunk(f2, bytes_compared)
    IN  IF chunk1 = <<>> /\ chunk2 = <<>>
        THEN [match |-> TRUE, bytes_compared |-> bytes_compared, mismatch_at |-> -1]
        ELSE IF chunk1 # chunk2
        THEN [match |-> FALSE, bytes_compared |-> bytes_compared,
              mismatch_at |-> bytes_compared]
        ELSE compare_loop(f1, f2, bytes_compared + Len(chunk1))

\* main(): the exit status and the offset reported
verify_transfer(f1, f2) ==
    LET c == compare_loop(f1, f2, 0)
        ok == c.match /\ md5(f1) = md5(f2) /\ Len(f1) = Len(f2)
    IN  [status |-> IF ok THEN 0 ELSE 1, mismatch_at |-> c.mismatch_at]

InitVerify ==
    /\ SyncOff
    /\ XferOff
    /\ FlashOff
    /\ call \in {[fn |-> "wait", text |-> <<f1, f2>>, ret |-> <<>>] :
                   f1 \in CompareFiles, f2 \in CompareFiles}

CallVerifyTransfer ==
    /\ call.fn = "wait"
    /\ call' = [call EXCEPT !.fn = "verify_transfer",
                            !.ret = verify_transfer(call.text[1], call.text[2])]
    /\ UNCHANGED <<syncVars, xferVars, flashVars>>

SpecVerify == InitVerify /\ [][CallVerifyTransfer]_vars

\* ======================================================================
\* download_file.py: one received buffer and what the file gets of it
\* ----------------------------------------------------------------------
DemuxAtoms == {"x", NL, "PROGRESS", "SUCCESS"}

Chunks == UNION {[1..n -> DemuxAtoms] : n \in 1..MaxFileLen}

InitDemux ==
    /\ SyncOff
    /\ XferOff
    /\ FlashOff
    /\ call \in {[fn |-> "wait", text |-> chunk, ret |-> <<>>] : chunk \in Chunks}

\* one pass of the receive loop over the buffer read
CallDemux ==
    /\ call.fn = "wait"
    /\ call' = [call EXCEPT !.fn = "demux", !.ret = demux(call.text)]
    /\ UNCHANGED <<syncVars, xferVars, flashVars>>

SpecDemux == InitDemux /\ [][CallDemux]_vars

\* ======================================================================
\* list_remote_files(): JSON listing, text fallback, recursion
\* ----------------------------------------------------------------------
d_sub == <<"s", "u", "b">>

sub_a_wav == d_sub \o <<"/">> \o a_wav

sub_sub_a_wav == d_sub \o <<"/">> \o d_sub \o <<"/">> \o a_wav

ListPaths == {a_wav, sub_a_wav, sub_b_wav, sub_sub_a_wav}

ListDirs == {<<>>, d_sub, d_sub \o <<"/">> \o d_sub}

ListTrees == UNION {[D -> RemoteSizes] : D \in SUBSET ListPaths}

\* the lines of the device's text listing of a directory, each split into its
\* blank-separated tokens: a file's name and size, a directory's name with "/";
\* the files in odd have a size token that is not a number
sd_ls_text(fs, dir, odd) ==
    LET entries == sd_ls(fs, dir)
    IN  {<<e.name, IF DirPrefix(dir) \o e.name \in odd THEN <<"txt">> ELSE <<"int", e.size>>>> :
            e \in {x \in entries : x.type = "file"}}
        \cup
        {<<d.name \o <<"/">>>> : d \in {x \in entries : x.type = "dir"}}

endswith(s, ch) == s # <<>> /\ s[Len(s)] = ch

RECURSIVE rstrip_slash(_)
rstrip_slash(s) == IF endswith(s, "/") THEN rstrip_slash(SubSeq(s, 1, Len(s) - 1)) ELSE s

\* int(parts[1]) succeeds
is_int(tok) == tok[1] = "int"

int_of(tok) == IF is_int(tok) THEN tok[2] ELSE 0

\* a text line recorded as a file whatever its size token
is_file_line_any(parts) == Len(parts) >= 2 /\ ~endswith(parts[1], "/")

\* a text line that makes an entry of files: name, then a size int() accepts
is_file_line(parts) == Len(parts) >= 2 /\ ~endswith(parts[1], "/") /\ is_int(parts[2])

\* a text line that is recursed into
is_dir_line(parts) ==
    /\ ~(Len(parts) >= 2 /\ ~endswith(parts[1], "/"))
    /\ Len(parts) >= 1
    /\ endswith(parts[1], "/")

\* the entries of a subdirectory merged without its name
prefixed_flat(name, subfiles) == subfiles

\* files[f"{name}/{subname}"] = size
prefixed(name, subfiles) == {<<name \o <<"/">> \o p[1], p[2]>> : p \in subfiles}

\* list_remote_files(path) where "sd ls --json" gives no usable answer for the
\* directories in nojson
RECURSIVE list_remote_files_fb(_, _, _, _)
list_remote_files_fb(fs, dir, nojson, odd) ==
    LET sub(name) == list_remote_files_fb(fs, DirPrefix(dir) \o name, nojson, odd)
    IN  IF dir \notin nojson
        THEN LET entries == sd_ls(fs, dir)
             IN  {<<e.name, e.size>> : e \in {x \in entries : x.type = "file"}}
                 \cup
                 UNION {prefixed(d.name, sub(d.name)) : d \in {x \in entries : x.type = "dir"}}
        ELSE LET lines == sd_ls_text(fs, dir, odd)
             IN  {<<l[1], int_of(l[2])>> : l \in {x \in lines : is_file_line(x)}}
                 \cup
                 UNION {prefixed(rstrip_slash(l[1]), sub(rstrip_slash(l[1]))) :
                           l \in {x \in lines : is_dir_line(x)}}

InitList ==
    /\ SyncOff
    /\ XferOff
    /\ FlashOff
    /\ call \in {[fn |-> "wait", text |-> [fs |-> fs, nojson |-> nj, odd |-> odd], ret |-> <<>>] :
                   fs \in ListTrees, nj \in SUBSET ListDirs, odd \in SUBSET ListPaths}
    /\ call.text.odd \subseteq DOMAIN call.text.fs

CallListRemoteFiles ==
    /\ call.fn = "wait"
    /\ call' = [call EXCEPT !.fn = "list_remote_files",
                            !.ret = list_remote_files_fb(call.text.fs, <<>>,
                                                         call.text.nojson, call.text.odd)]
    /\ UNCHANGED <<syncVars, xferVars, flashVars>>

SpecList == InitList /\ [][CallListRemoteFiles]_vars

\* ======================================================================
\* Properties of the sync planner and runner
\* ======================================================================
\* the comparison of this run has been made
Planned == pc \in {"mkdir", "upload", "delete"} \/ (pc = "done" /\ sync_ret = "true")

LocalPathsNow == {slashes(localFS[i].path) : i \in 1..Len(localFS)}

UploadReasons(name) ==
    {to_upload[j].reason : j \in {k \in 1..Len(to_upload) : to_upload[k].name = name}}

RmPaths == {cmds[i].path : i \in {k \in 1..Len(cmds) : cmds[k].op = "rm"}}

\* C1: a local path and a remote path that are equal after lowercasing are the
\* same file to the planner: the local file is never planned as "new" and the
\* remote file is never scheduled for deletion, whichever side holds the capitals.
C1_CaseInsensitivePlan ==
    Planned =>
        \A L \in LocalPathsNow : \A R \in RemoteNames(remote_files) :
            lower(L) = lower(R) =>
                /\ "new" \notin UploadReasons(L)
                /\ R \notin to_delete

C1_Witness ==
    /\ Planned
    /\ delete_orphans
    /\ \E L \in LocalPathsNow : \E R \in RemoteNames(remote_files) :
          /\ lower(L) = lower(R)
          /\ L # R
          /\ L # lower(L)
    /\ \E L \in LocalPathsNow : \E R \in RemoteNames(remote_files) :
          /\ lower(L) = lower(R)
          /\ L # R
          /\ R # lower(R)

EqualSizeEntries ==
    {i \in 1..Len(local_files) :
        /\ HasRemoteKey(remote_files, local_files[i].key)
        /\ RemoteSizeOf(remote_files, local_files[i].key) = local_files[i].size}

\* C2: every scanned local file whose size equals the size of the remote entry
\* of the same folded key is skipped: it is counted in stats.skipped and is not
\* in to_upload, size 0 on both sides included.
C2_EqualSizeSkipped ==
    Planned =>
        /\ \A i \in EqualSizeEntries : UploadReasons(local_files[i].name) = {}
        /\ stats.skipped = Cardinality(EqualSizeEntries)

C2_Witness ==
    /\ Planned
    /\ \E i \in EqualSizeEntries : local_files[i].size = 0
    /\ \E i \in EqualSizeEntries : local_files[i].size > 0
    /\ stats.skipped = 2

\* C3: a scanned local file is planned as "new" exactly when no remote entry has
\* its folded key; such a file is never "modified" and never skipped.
C3_NewIffAbsent ==
    Planned =>
        /\ \A i \in 1..Len(local_files) :
              ~HasRemoteKey(remote_files, local_files[i].key)
                  => UploadReasons(local_files[i].name) = {"new"}
        /\ \A j \in 1..Len(to_upload) :
              to_upload[j].reason = "new"
                  => \A R \in RemoteNames(remote_files) : lower(R) # lower(to_upload[j].name)
        /\ stats.skipped <= Cardinality({i \in 1..Len(local_files) :
                                            HasRemoteKey(remote_files, local_files[i].key)})

C3_Witness ==
    /\ Planned
    /\ \E i \in 1..Len(local_files) : ~HasRemoteKey(remote_files, local_files[i].key)
    /\ \E i \in 1..Len(local_files) :
          /\ HasRemoteKey(remote_files, local_files[i].key)
          /\ RemoteSizeOf(remote_files, local_files[i].key) = 0
    /\ remote_files # {}

ExampleLocal ==
    {<<[path |-> a_wav, size |-> 100], [path |-> sub_b_wav, size |-> 200]>>,
     <<[path |-> sub_b_wav, size |-> 200], [path |-> a_wav, size |-> 100]>>}

ExampleRemote == {<<A_WAV, 100>>, <<sub_b_wav, 150>>}

\* C4: a scanned local file whose folded key matches a remote entry of another
\* size is planned once, as "modified", with the local size; and local
\* {a.wav: 100, sub/b.wav: 200} against remote {A.WAV: 100, sub/b.wav: 150}
\* skips a.wav and plans exactly (sub/b.wav, 200, modified).
C4_ModifiedOnSizeChange ==
    Planned =>
        /\ \A i \in 1..Len(local_files) :
              (/\ HasRemoteKey(remote_files, local_files[i].key)
               /\ RemoteSizeOf(remote_files, local_files[i].key) # local_files[i].size)
                  => Cardinality({j \in 1..Len(to_upload) :
                                     to_upload[j] = [name |-> local_files[i].name,
                                                     size |-> local_files[i].size,
                                                     reason |-> "modified"]}) = 1
        /\ (localFS \in ExampleLocal /\ remote_files = ExampleRemote)
              => /\ to_upload = <<[name |-> sub_b_wav, size |-> 200, reason |-> "modified"]>>
                 /\ stats.skipped = 1
                 /\ UploadReasons(a_wav) = {}

C4_Witness ==
    /\ Planned
    /\ localFS \in ExampleLocal
    /\ remote_files = ExampleRemote

OrphanNames ==
    {R \in RemoteNames(remote_files) : \A L \in LocalPathsNow : lower(L) # lower(R)}

\* C6: with --delete, the names scheduled for deletion are exactly the remote
\* names whose folded key no local file has; every "sd rm" goes to one of them,
\* and none goes to a path that a local file maps to, case ignored.
C6_DeleteExactlyOrphans ==
    (delete_orphans /\ Planned) =>
        /\ to_delete = OrphanNames
        /\ RmPaths \subseteq {remote_path_of(n) : n \in OrphanNames}
        /\ \A p \in RmPaths : \A L \in LocalPathsNow :
              lower(p) # lower(remote_path_of(L))

C6_Witness ==
    /\ delete_orphans
    /\ pc = "done"
    /\ RmPaths # {}
    /\ \E L \in LocalPathsNow : \E R \in RemoteNames(remote_files) :
          lower(L) = lower(R) /\ L # R

\* C7: without --delete no "sd rm" is ever written and stats.deleted stays 0,
\* whatever else the card holds.
C7_UploadOnlyNeverDeletes ==
    ~delete_orphans =>
        /\ RmPaths = {}
        /\ stats.deleted = 0
        /\ to_delete = {}

C7_Witness ==
    /\ ~delete_orphans
    /\ pc = "done"
    /\ sync_ret = "true"
    /\ stats.uploaded > 0
    /\ OrphanNames # {}

\* positions in cmds of the commands of one kind
CmdIdx(op) == {i \in 1..Len(cmds) : cmds[i].op = op}

\* C14: an upload that fails adds one to stats.errors and nothing else changes
\* course: a run that ends has sent an upload command for every entry of
\* to_upload, in order, and an "sd rm" for every entry of to_delete.
C14_FailureDoesNotAbort ==
    /\ stats.errors = Cardinality({i \in CmdIdx("upload") \cup CmdIdx("rm") :
                                     cmds[i].result \notin {"success", "ok"}})
    /\ stats.uploaded = Cardinality({i \in CmdIdx("upload") : cmds[i].result = "success"})
    /\ (pc = "done" /\ sync_ret = "true") =>
          /\ Cardinality(CmdIdx("upload")) = Len(to_upload)
          /\ \A j \in 1..Len(to_upload) :
                \E i \in CmdIdx("upload") :
                    /\ cmds[i].path = remote_path_of(to_upload[j].name)
                    /\ Cardinality({k \in CmdIdx("upload") : k <= i}) = j
          /\ RmPaths = {remote_path_of(n) : n \in to_delete}

C14_Witness ==
    /\ pc = "done"
    /\ sync_ret = "true"
    /\ \E i \in CmdIdx("upload") :
          /\ cmds[i].result = "error"
          /\ \E k \in CmdIdx("upload") \cup CmdIdx("rm") :
                i < k /\ cmds[k].result \in {"success", "ok"}
    /\ stats.errors = 1

\* C15: when the run has ended, the exit status is non-zero exactly when
\* stats.errors is non-zero.
C15_ExitReflectsErrors ==
    pc = "done" => ((exit_code # 0) <=> (stats.errors # 0))

\* C16: an upload that ends in the completion wait's timeout, with neither
\* SUCCESS nor ERROR read, is counted neither in stats.uploaded nor in
\* stats.errors.
C16_UnclearNotCounted ==
    /\ stats.uploaded = Cardinality({i \in CmdIdx("upload") : cmds[i].result = "success"})
    /\ stats.errors = Cardinality({i \in CmdIdx("upload") \cup CmdIdx("rm") :
                                     cmds[i].result = "error"})

\* C17: before the upload command of a file in a sub-folder is sent, the
\* "sd mkdir" of its parent directory has been answered with success or with
\* "already exists".
C17_ParentDirReadyBeforeUpload ==
    \A i \in CmdIdx("upload") :
        dirname(DevRel(cmds[i].path)) # <<>> =>
            \E j \in CmdIdx("mkdir") :
                /\ j < i
                /\ cmds[j].path = dirname(cmds[i].path)
                /\ cmds[j].result \in {"ok", "exists"}

\* the parent directories of the planned uploads, as the device tells them apart
PlannedDirs ==
    {lower(remote_path_of(dirname(to_upload[j].name))) :
        j \in {k \in 1..Len(to_upload) : dirname(to_upload[k].name) # <<>>}}

\* C18: once the directory loop has run, every parent directory of the planned
\* uploads, told apart without regard to case, has been sent exactly one "sd mkdir".
C18_EachDirCreatedOnce ==
    pc \in {"upload", "delete", "done"} =>
        \A d \in PlannedDirs :
            Cardinality({i \in CmdIdx("mkdir") : lower(cmds[i].path) = d}) = 1

\* C19: the names removed in a run come from the orphan set of the listing taken
\* before the first upload, all of them by the end of the run; no "sd rm" goes
\* to a path an upload of the run went to, and what an upload stored is still
\* on the card when the run ends.
C19_DeletesFromSnapshot ==
    Planned =>
        /\ to_delete = {R \in RemoteNames(remote_files) :
                           delete_orphans /\ lower(R) \notin LocalKeys(local_files)}
        /\ RmPaths \subseteq {remote_path_of(n) : n \in to_delete}
        /\ pc = "done" => RmPaths = {remote_path_of(n) : n \in to_delete}
        /\ \A i \in CmdIdx("upload") : \A j \in CmdIdx("rm") :
              lower(cmds[i].path) # lower(cmds[j].path)
        /\ \A i \in CmdIdx("upload") :
              cmds[i].result \in {"success", "timeout_stored"}
                  => DevMatches(remoteFS, DevRel(cmds[i].path)) # {}

C19_Witness ==
    /\ pc = "done"
    /\ delete_orphans
    /\ \E i \in CmdIdx("upload") : \E j \in CmdIdx("rm") :
          i < j /\ cmds[i].result = "success" /\ cmds[j].result = "ok"
    /\ list_remote_files(remoteFS, <<>>) # remote_files
    /\ \E i \in CmdIdx("upload") :
          DevRel(cmds[i].path) \notin RemoteNames(remote_files)

\* C20: the path of every upload command is the destination folder joined with
\* a local relative path as found on disk, and the path of every "sd rm" is the
\* destination folder joined with a remote name as listed; the folded key is
\* used for comparison only.
C20_OriginalCasePaths ==
    /\ \A i \in CmdIdx("upload") :
          \E L \in LocalPathsNow : cmds[i].path = dest_folder \o <<"/">> \o L
    /\ \A j \in 1..upIdx :
          \E k \in 1..Len(local_files) :
              /\ to_upload[j].name = local_files[k].name
              /\ \E i \in CmdIdx("upload") :
                    cmds[i].path = dest_folder \o <<"/">> \o local_files[k].name
    /\ \A i \in CmdIdx("rm") :
          \E R \in RemoteNames(remote_files) : cmds[i].path = dest_folder \o <<"/">> \o R

C20_Witness ==
    /\ pc = "done"
    /\ \E i \in CmdIdx("upload") : cmds[i].path # lower(cmds[i].path)
    /\ \E i \in CmdIdx("rm") : cmds[i].path # lower(cmds[i].path)

\* ======================================================================
\* Properties of the transfers
\* ======================================================================
\* the download has come to rest: it returned, or the device has sent the whole
\* file and its closing line and the host has read all of it
RoundTripAtRest ==
    /\ variant = "script"
    /\ up.pc = "ret_true"
    /\ \/ dl.pc = "ret_true"
       \/ dl.pc = "recv" /\ dev.sent_all /\ d2h = <<>>

\* C8: a file uploaded by upload_file() and then downloaded by download_file()
\* comes back byte for byte, whatever its size and bytes.
C8_RoundTripIdentical ==
    RoundTripAtRest => (dl.pc = "ret_true" /\ dl.out = file)

\* C9: per-chunk token protocol: once SUCCESS has been read with chunks still
\* unsent, no further chunk is written and the upload does not end in failure.
C9_NoChunkAfterEarlySuccess ==
    (variant = "token" /\ up.sent_at_success >= 0 /\ up.sent_at_success < file_size)
        => (up.bytes_sent = up.sent_at_success /\ up.pc # "ret_false")

\* C10: an upload of a 0-byte file returns True only after the command was
\* sent, READY was read, no payload byte was written and SUCCESS was read.
C10_EmptyFileFullHandshake ==
    (file_size = 0 /\ up.pc = "ret_true")
        => (up.ready_read /\ up.bytes_sent = 0 /\ h2d = <<>> /\ up.sent_at_success = 0)

\* C11: an ERROR line that the uploader takes off the channel after READY,
\* while chunks are still being written included, makes the call end as a
\* device error; it is never read and dropped.
C11_ErrorNeverDropped ==
    (variant \in {"sync", "script"} /\ up.err_read /\ up.pc \in {"ret_true", "ret_false"})
        => up.outcome = "device_error"

\* ======================================================================
\* Properties of the post-flash version check
\* ======================================================================
\* the spec's normalisation: one optional leading "v" is stripped
StripOneV(s) == IF s # <<>> /\ Head(s) = "v" THEN Tail(s) ELSE s

\* the answer carries a version and a build
CarriesBoth(resp) == resp.firmware # <<>> /\ resp.build >= 0

\* the answer carries a version and a build that the parsing passes extract
ParsedBoth(resp) ==
    (json_version(resp) # <<>> \/ text_version(resp) # <<>>) /\ resp.build >= 0

\* C12: the check succeeds exactly when the reported version equals the
\* expected one after one optional leading "v" is stripped from both, and the
\* reported build equals the expected build.
C12_SuccessIffMatch ==
    verify.pc \in {"returned", "exited"} =>
        (verify.success <=>
            /\ CarriesBoth(verify.response)
            /\ StripOneV(verify.response.firmware) = StripOneV(verify.expected_version)
            /\ verify.response.build = verify.expected_build)

\* C13: an answer whose version and build were parsed and do not match is
\* reported as a mismatch with exit status 1; "could not verify" (exit 0) is
\* reported only when version and build were not both parsed.
C13_MismatchNeverUnverified ==
    verify.pc = "exited" =>
        /\ (ParsedBoth(verify.response) /\ ~verify.success)
              => (verify.report = "mismatch" /\ verify.exit = 1)
        /\ verify.report = "could_not_verify"
              => (~ParsedBoth(verify.response) /\ verify.exit = 0)


\* bytes of the uploads among the first n commands that ended in success
RECURSIVE SuccessBytes(_)
SuccessBytes(n) ==
    IF n = 0 THEN 0
    ELSE SuccessBytes(n - 1)
         + (IF cmds[n].op = "upload" /\ cmds[n].result = "success" THEN cmds[n].size ELSE 0)

\* C37: when a run that had something to do has ended, every entry of
\* to_upload is counted once in uploaded or in errors, every entry of
\* to_delete once in deleted or in errors, skipped is the number of scanned
\* files found on the device with the same size, and bytes_transferred is the
\* sum of the sizes of the uploads that succeeded.
C37_StatsAccountForPlan ==
    (pc = "done" /\ ~in_sync /\ sync_ret = "true") =>
        LET upErr  == Cardinality({i \in CmdIdx("upload") : cmds[i].result # "success"})
            delErr == Cardinality({i \in CmdIdx("rm") : cmds[i].result # "ok"})
        IN  /\ stats.uploaded + upErr = Len(to_upload)
            /\ stats.deleted + delErr = Cardinality(to_delete)
            /\ stats.errors = upErr + delErr
            /\ stats.skipped = Cardinality({i \in 1..Len(local_files) :
                                   classify(remote_files, local_files[i]) = "skip"})
            /\ stats.bytes_transferred = SuccessBytes(Len(cmds))

C37_Witness ==
    /\ pc = "done"
    /\ sync_ret = "true"
    /\ Len(to_upload) = 2
    /\ stats.uploaded = 1
    /\ stats.errors = 1
    /\ \E i \in CmdIdx("upload") : cmds[i].result # "success"
    /\ stats.bytes_transferred = 200

\* C39: once the plan is made, every file of the source folder is either an
\* entry of to_upload or counted in skipped: the two add up to the number of
\* files the scan found.
C39_PlanPartitionsLocalTree ==
    (pc # "start" /\ sync_ret # "false") => Len(to_upload) + stats.skipped = Len(localFS)

\* ------------------------------------------------------ exchange properties
\* C21: the response an upload routine reads for its upload command holds no
\* byte that the device wrote before that command: the inbound buffer was
\* cleared right before the command was written.
C21_NoStaleByteInResponse == ~up.stale_read

\* C22: when sync() writes the command that follows an upload, the upload's
\* exchange is over: the device is idle again and nothing of the upload, command
\* or payload, is still on its way to the device.
C22_OneExchangeAtATime ==
    (up.pc = "next_sent" /\ Has(h2d, "cmd")) => (dev.st = "idle" /\ h2d = <<"cmd">>)

\* C26: no payload byte is written before a READY line was read; an ERROR
\* line read in the READY wait ends the upload as a device-reported failure,
\* a wait that runs out with neither as "not ready"; in both cases no payload
\* byte has been sent.
C26_ReadyGate ==
    /\ up.bytes_sent > 0 => up.ready_read
    /\ up.err_pre => (up.outcome = "device_error" /\ up.bytes_sent = 0)
    /\ up.outcome = "not_ready" => (~up.err_pre /\ up.bytes_sent = 0)

\* C27: under every protocol an upload is reported successful only after its
\* closing line (SUCCESS, DONE) was read, and a wait for the closing line that
\* runs out ends the upload as "status unclear", an outcome of its own.
C27_FinalCompletionWait ==
    /\ up.outcome = "success" => up.sent_at_success >= 0
    /\ up.waited_out => up.outcome = "unclear"

\* C28: under the per-chunk-token protocol a chunk is written only after a
\* NEXT line was read for the chunk before it; an ERROR line read in the chunk
\* loop and a wait that runs out both end the upload as a failure.
C28_StopAndWait ==
    variant = "token" =>
        /\ up.chunks <= up.next_read + 1
        /\ up.err_read => (up.pc = "ret_false" /\ up.outcome = "device_error")
        /\ up.outcome = "no_response" => up.pc = "ret_false"

\* C29: under the per-chunk-ack protocol one response line is taken per chunk
\* written; the next chunk is written only after the line OK, the line DONE
\* ends the upload successfully at once, and any other line, the empty line of
\* a read that timed out included, ends it as a failure with no further chunk.
C29_OneLinePerChunk ==
    variant = "ack" =>
        /\ up.resp_lines = IF up.pc = "y_resp" THEN up.chunks - 1 ELSE up.chunks
        /\ (up.pc = "send" /\ up.chunks > 0) => up.last_line = <<"OK">>
        /\ (up.pc = "y_resp" /\ up.chunks > 1) => up.last_line = <<"OK">>
        /\ up.last_line = <<"DONE">> => (up.pc = "ret_true" /\ up.outcome = "success")
        /\ (up.resp_lines > 0 /\ up.last_line \notin {<<"OK">>, <<"DONE">>})
               => (up.pc = "ret_false" /\ up.outcome = "unexpected")

C29_Witness ==
    /\ variant = "ack"
    /\ up.chunks = 2
    /\ up.resp_lines = 2
    /\ up.last_line = <<"DONE">>
    /\ up.pc = "ret_true"

\* C30: in the send loop of every upload routine, no chunk is written between
\* the read of an XOFF byte and the read of the XON byte after it, and no XOFF
\* byte is read there without being recognised.
C30_XoffHonoured == ~up.wrote_paused /\ ~up.xoff_missed

\* C31: every upload call and every download call returns in the end,
\* whatever the device does or stops doing.
C31_EveryCallReturns ==
    /\ <>(up.pc \in {"ret_true", "ret_false", "next_sent"})
    /\ [](dl.pc # "off" => <>(dl.pc \in {"ret_true", "ret_false"}))

\* C32: a download writes START and creates its destination file only after
\* a SIZE line and then a READY line were read.
C32_StartAfterSizeAndReady ==
    (dl.pc = "recv" \/ dl.out # NoFile) => (dl.size # -1 /\ dl.ready_read)

\* C33: a download that reports success has written exactly the number of
\* bytes the SIZE line announced, and reports that number.
C33_ExactByteCount ==
    dl.pc = "ret_true" => (Len(dl.out) = dl.size /\ dl.received = dl.size)

\* C38: the payload bytes an upload has written are never more than the size
\* its upload command announced, and an upload that returns True has written
\* exactly that many.
C38_PayloadWithinAnnounced ==
    /\ up.bytes_sent <= file_size
    /\ up.pc = "ret_true" => up.bytes_sent = file_size

\* ------------------------------------------------------ response properties
\* the first balanced bracketed piece of r, "{...}" or "[...]", parsed; none
\* where r has no opening bracket, the depth never returns to 0 or the piece
\* does not parse
FirstBalanced(r, none) ==
    IF \A i \in 1..Len(r) : r[i] \notin {"{", "["} THEN none
    ELSE LET start == FirstOf(r, {"{", "["})
             ends == {i \in start..Len(r) : depth_at(r, start, i, {"{", "["}, {"}", "]"}) = 0}
         IN  IF ends = {} THEN none
             ELSE LET end == CHOOSE i \in ends : \A j \in ends : i <= j
                      sub == SubSeq(r, start, end)
                  IN  IF json_loads_ok(sub) THEN json_loads(sub) ELSE none

\* C23: for every response text, JSON extraction returns the parsed value of
\* the first balanced "{...}" or "[...]" found anywhere in the response, and
\* the no-JSON result (None, the empty dict) where there is no opening
\* bracket, no balance or no parse.
C23_FirstBalancedJson ==
    /\ call.fn = "send_json_command"
           => call.ret = FirstBalanced(send_command(call.text), None)
    /\ call.fn = "send_json"
           => call.ret = FirstBalanced(send(call.text), EmptyDict)

\* the text after the first line of s, nothing where s is one line
AfterFirstLine(s) == IF Has(s, NL) THEN SubSeq(s, FirstNL(s) + 1, Len(s)) ELSE <<>>

\* C24 as stated: send() returns the accumulated response without its first
\* line if and only if that line begins with ">", and every other line as it
\* was received.
C24_EchoLineStrippedOnly ==
    call.fn = "send"
        => call.ret = IF startswith(call.text, ">") THEN AfterFirstLine(call.text)
                      ELSE call.text

\* C24: send() trims the whitespace around the accumulated response, drops the
\* first line of what is left if and only if it begins with ">", and returns
\* the lines after it in order, trimmed of whitespace at the two ends only.
C24_EchoLineStripped ==
    call.fn = "send"
        => LET t == strip(call.text)
           IN  call.ret = IF startswith(t, ">") THEN strip(AfterFirstLine(t)) ELSE t

C24_Witness ==
    /\ call.fn = "send"
    /\ startswith(call.text, ">")
    /\ Has(call.text, NL)
    /\ call.ret = <<"1", "1">>

\* the index, from 0, of the first byte at which f1 and f2 differ; a byte
\* that only one of them has differs
FirstDiff(f1, f2) ==
    CHOOSE i \in 0..Min(Len(f1), Len(f2)) :
        /\ (i = Min(Len(f1), Len(f2)) \/ f1[i + 1] # f2[i + 1])
        /\ \A j \in 0..(i - 1) : f1[j + 1] = f2[j + 1]

\* C25: the integrity check succeeds exactly for two files of equal size and
\* identical bytes, and on a mismatch reports the index of the first byte at
\* which they differ.
C25_IntegrityCheck ==
    call.fn = "verify_transfer"
        => LET f1 == call.text[1]
               f2 == call.text[2]
           IN  /\ call.ret.status = 0 <=> f1 = f2
               /\ f1 # f2 => call.ret.mismatch_at = FirstDiff(f1, f2)

\* C34: of a received buffer that holds a newline, the file gets the segment
\* after the last newline, byte for byte, unless that segment holds a
\* PROGRESS or SUCCESS marker, and nothing else: no marked segment and no
\* other byte is written.
C34_DemuxKeepsTrailingSegment ==
    (call.fn = "demux" /\ Has(call.text, NL))
        => LET parts == split_lines(call.text)
               last == parts[Len(parts)]
           IN  call.ret = IF IsMarked(last) THEN <<>> ELSE last

C34_Witness ==
    /\ call.fn = "demux"
    /\ call.text = <<"x", "PROGRESS", NL, "x">>
    /\ call.ret = <<"x">>

\* C35: where the device reports every size as a number, the listing of a
\* remote tree is the map from every file's path below the listed root to the
\* size the device reports for it, and has no key for a directory; where
\* every directory answers in JSON it is the listing the planner uses.
C35_ListingIsTheTree ==
    (call.fn = "list_remote_files" /\ call.text.odd = {})
        => /\ call.ret = {<<f, call.text.fs[f]>> : f \in DOMAIN call.text.fs}
           /\ call.text.nojson = {} => call.ret = list_remote_files(call.text.fs, <<>>)

C35_Witness ==
    /\ call.fn = "list_remote_files"
    /\ call.text.odd = {}
    /\ call.text.nojson = {}
    /\ call.ret = {<<a_wav, 100>>, <<sub_b_wav, 150>>, <<sub_sub_a_wav, 0>>}

\* C36: a directory without a usable JSON listing is listed in text mode
\* instead and the listing still returns a map: of that directory's files it
\* has all but those whose size token is not a number, its subdirectories are
\* recursed into, and all other directories contribute as usual.
C36_TextFallback ==
    call.fn = "list_remote_files"
        => call.ret = {<<f, call.text.fs[f]>> :
                          f \in {g \in DOMAIN call.text.fs :
                                    ~(g \in call.text.odd /\ dirname(g) \in call.text.nojson)}}

C36_Witness ==
    /\ call.fn = "list_remote_files"
    /\ call.text.nojson = {d_sub}
    /\ call.text.odd = {sub_b_wav}
    /\ call.ret = {<<sub_a_wav, 100>>, <<sub_sub_a_wav, 150>>}

====
